---- MODULE Spec2Model ----
(***************************************************************************)
(* A model of the SPARQL plan evaluator of lib/src/sparql/eval.rs.         *)
(*                                                                         *)
(* Encoded terms are pairs <<tag, payload>>; an unbound slot (Rust's None) *)
(* is the pair None.  An EncodedTuple is a sequence of such pairs; the     *)
(* code's slots are 0-based, so slot v is element v + 1 of the sequence.   *)
(* A stream item (Result<EncodedTuple>) is <<"Ok", tuple>> or              *)
(* <<"Err", <<error>>>>; the end of a stream (Option::None returned by     *)
(* next()) is NoItem.                                                      *)
(*                                                                         *)
(* Every iterator of the code is a record holding the fields of the Rust   *)
(* struct; its next() is an operator from (iterator, evaluator state) to   *)
(* the item returned, the iterator afterwards and the evaluator state      *)
(* afterwards.  The evaluator state is what the clones of SimpleEvaluator  *)
(* share: bnodes_map, and the source of fresh blank node identifiers.      *)
(***************************************************************************)
EXTENDS Integers, Sequences, FiniteSets

VARIABLES
    plan,              \* the PlanNode given to eval_plan
    from,              \* the seed tuple given to eval_plan
    store_fails,       \* whether the store ends an enumeration with an I/O error
    iter,              \* the EncodedTuplesIterator being pulled
    ev,                \* the evaluator's shared state (bnodes_map, fresh ids)
    out,               \* the items next() has returned so far, in order
    pc,                \* "running", "done" (next() returned None), "hung"
    template,          \* CONSTRUCT: the triple templates
    buffered_results,  \* CONSTRUCT: ConstructIterator.buffered_results
    bnodes,            \* CONSTRUCT: ConstructIterator.bnodes
    resolved,          \* CONSTRUCT: the calls of get_triple_template_value so far
    unstable           \* the order sort_unstable_by leaves where nothing fixes it

vars ==
    <<plan, from, store_fails, iter, ev, out, pc, template, buffered_results, bnodes,
      resolved, unstable>>

(***************************************************************************)
(* Bounds of the model.                                                    *)
(***************************************************************************)
\* the longest list of rows a StaticBindings node of the model carries
MaxRows == 2
\* the longest list of rows a Sort node of the model sorts
MaxSortRows == 3
\* the longest tuple combine_tuples is applied to on its own
MaxSlots == 2

(***************************************************************************)
(* Terms, tuples and stream items.                                         *)
(***************************************************************************)
None == <<"None", 0>>
ENCODED_DEFAULT_GRAPH == <<"DefaultGraph", 0>>
NamedNode(id) == <<"NamedNode", id>>
BlankNode(id) == <<"BlankNode", id>>
SimpleLiteral(id) == <<"SimpleLiteral", id>>
StringLiteral(id) == <<"StringLiteral", id>>
BooleanLiteral(b) == <<"BooleanLiteral", IF b THEN 1 ELSE 0>>
IntegerLiteral(n) == <<"IntegerLiteral", n>>
\* the numbers of the other three numeric variants are integers too: a finite
\* value is the integer it equals, and the three special values of the IEEE
\* types have the codes below, chosen so that the order of the codes is the
\* order of the values wherever the values are ordered
FloatLiteral(x) == <<"FloatLiteral", x>>
DoubleLiteral(x) == <<"DoubleLiteral", x>>
DecimalLiteral(x) == <<"DecimalLiteral", x>>
INFINITY == 1000
NEG_INFINITY == 0 - INFINITY
NAN == 2000

\* the dictionary id of the empty string
EMPTY_STRING_ID == 0
ENCODED_EMPTY_SIMPLE_LITERAL == SimpleLiteral(EMPTY_STRING_ID)
ENCODED_EMPTY_STRING_LITERAL == StringLiteral(EMPTY_STRING_ID)

is_named_node(t) == t[1] = "NamedNode"
is_blank_node(t) == t[1] = "BlankNode"
is_literal(t) ==
    t[1] \in {"SimpleLiteral", "StringLiteral", "BooleanLiteral", "IntegerLiteral",
              "FloatLiteral", "DoubleLiteral", "DecimalLiteral"}

Ok(t) == <<"Ok", t>>
Err(e) == <<"Err", << <<"Error", e>> >> >>
NoItem == <<"End", << >> >>
\* a panic: the call that raised it does not return and the evaluation is over
Panic == <<"Panic", << >> >>
IsOk(item) == item[1] = "Ok"
IsErr(item) == item[1] = "Err"

Range(s) == { s[i] : i \in DOMAIN s }

RECURSIVE Flatten(_)
Flatten(ss) ==
    IF ss = << >> THEN << >> ELSE Head(ss) \o Flatten(Tail(ss))

Reverse(s) == [ i \in 1 .. Len(s) |-> s[Len(s) + 1 - i] ]

\* get_tuple_value: reading past the end of a tuple yields unbound
get_tuple_value(variable, tuple) ==
    IF variable < Len(tuple) THEN tuple[variable + 1] ELSE None

has_tuple_value(variable, tuple) ==
    IF variable < Len(tuple) THEN tuple[variable + 1] # None ELSE FALSE

\* put_value: Vec::resize pads with None up to position, then the value is pushed
put_value(position, value, tuple) ==
    IF position < Len(tuple)
    THEN [tuple EXCEPT ![position + 1] = value]
    ELSE [ i \in 1 .. position + 1 |->
             IF i <= Len(tuple) THEN tuple[i]
             ELSE IF i = position + 1 THEN value ELSE None ]

\* PatternValue::Constant(term) | PatternValue::Variable(slot)
PConstant(term) == <<"Constant", term>>
PVariable(v) == <<"Variable", v>>
is_var(selector) == selector[1] = "Variable"

get_pattern_value(selector, tuple) ==
    IF selector[1] = "Constant" THEN selector[2] ELSE get_tuple_value(selector[2], tuple)

put_pattern_value(selector, value, tuple) ==
    IF selector[1] = "Constant" THEN tuple ELSE put_value(selector[2], value, tuple)

\* the slots of `set` that `binding` binds, in the order of `set`
bind_variables_in_set(binding, set) ==
    SelectSeq(set, LAMBDA key : key < Len(binding) /\ binding[key + 1] # None)

unbind_variables(binding, variables) ==
    [ i \in 1 .. Len(binding) |->
        IF (i - 1) \in Range(variables) THEN None ELSE binding[i] ]

\* Option<EncodedTuple>::None, the result of combine_tuples on incompatible tuples
NoTuple == << <<"NoTuple", 0>> >>

\* mutant of merge_into: a slot bound differently by the two tuples is no conflict
MutMergeWithoutConflict(base, other) ==
    [ key \in 1 .. Len(base) |->
        IF key <= Len(other) /\ other[key] # None /\ base[key] = None
        THEN other[key] ELSE base[key] ]

\* one branch of combine_tuples: `result` starts as a copy of `base` (the tuple
\* that is not shorter) and the values of `other` are merged into it
merge_into(base, other) ==
    IF \E key \in 1 .. Len(other) :
          other[key] # None /\ base[key] # None /\ other[key] # base[key]
    THEN NoTuple
    ELSE [ key \in 1 .. Len(base) |->
             IF key <= Len(other) /\ other[key] # None /\ base[key] = None
             THEN other[key] ELSE base[key] ]

\* the combination that mutates combine_tuples: the result is as long as a
MutCombineAsLongAsFirst(a, b) ==
    IF Len(a) < Len(b) THEN merge_into(a, SubSeq(b, 1, Len(a))) ELSE merge_into(a, b)

combine_tuples(a, b) ==
    IF Len(a) < Len(b) THEN merge_into(b, a) ELSE merge_into(a, b)

(***************************************************************************)
(* The evaluator's shared state and the expression evaluator.              *)
(***************************************************************************)
\* bnodes_map is empty after SimpleEvaluator::new; `fresh` is the identifier
\* the next BlankNode::default() takes (identifiers below 10 belong to the data)
InitEv == [ bnodes_map |-> [ x \in {} |-> 0 ], fresh |-> 10 ]

\* the result of an evaluation: the value (None for a SPARQL error) and the
\* evaluator state afterwards
R(v, s) == [ val |-> v, ev |-> s ]

\* Option<bool>: BooleanLiteral(TRUE), BooleanLiteral(FALSE) or None
to_bool(term) ==
    CASE term[1] = "BooleanLiteral" -> term
      [] term[1] = "SimpleLiteral" -> BooleanLiteral(term # ENCODED_EMPTY_SIMPLE_LITERAL)
      [] term[1] = "StringLiteral" -> BooleanLiteral(term # ENCODED_EMPTY_STRING_LITERAL)
      [] term[1] = "FloatLiteral" -> BooleanLiteral(term[2] # 0)
      [] term[1] = "DoubleLiteral" -> BooleanLiteral(term[2] # 0)
      [] term[1] = "IntegerLiteral" -> BooleanLiteral(term[2] # 0)
      [] term[1] = "DecimalLiteral" -> BooleanLiteral(term[2] # 0)
      [] OTHER -> None

\* Ordering, and Option<Ordering> with "None"
Less == "Less"
Equal == "Equal"
Greater == "Greater"
cmp(a, b) == IF a < b THEN Less ELSE IF a = b THEN Equal ELSE Greater
\* partial_cmp of two IEEE values: no ordering when either is NaN
float_partial_cmp(a, b) == IF a = NAN \/ b = NAN THEN "None" ELSE cmp(a, b)

\* the store's dictionary gives the string of an id; the strings of the model
\* are ordered as their ids are, and every id has a string
compare_str_ids(a, b) == cmp(a, b)

is_string(t) == t[1] \in {"SimpleLiteral", "StringLiteral"}
is_numeric(t) == t[1] \in {"FloatLiteral", "DoubleLiteral", "IntegerLiteral", "DecimalLiteral"}
is_ieee(t) == t[1] \in {"FloatLiteral", "DoubleLiteral"}

partial_cmp_literals(a, b) ==
    IF is_string(a) /\ is_string(b) THEN compare_str_ids(a[2], b[2])
    ELSE IF is_numeric(a) /\ is_numeric(b)
    THEN IF is_ieee(a) \/ is_ieee(b) THEN float_partial_cmp(a[2], b[2])
         ELSE cmp(a[2], b[2])
    ELSE "None"

\* the equality that mutates equals: only identical terms are equal
MutEqualsIdentical(a, b) == a = b
equals(a, b) == a = b \/ partial_cmp_literals(a, b) = Equal

unwrap_or(o, default) == IF o = "None" THEN default ELSE o

\* what eval_expression leaves in place of a value when it panics: it does not
\* return.  Only Div panics, and the model evaluates it as the outermost
\* expression only
Panicked == <<"Panicked", 0>>

\* NumericBinaryOperands; kind "None" when an operand is not numeric
NumericBinaryOperands(kind, v1, v2) == [ kind |-> kind, v1 |-> v1, v2 |-> v2 ]

\* the match of parse_numeric_operands on the two evaluated operands
parse_numeric_operands(a, b) ==
    IF ~(is_numeric(a) /\ is_numeric(b)) THEN NumericBinaryOperands("None", 0, 0)
    ELSE IF "DoubleLiteral" \in { a[1], b[1] } THEN NumericBinaryOperands("Double", a[2], b[2])
    ELSE IF "FloatLiteral" \in { a[1], b[1] } THEN NumericBinaryOperands("Float", a[2], b[2])
    ELSE IF "DecimalLiteral" \in { a[1], b[1] } THEN NumericBinaryOperands("Decimal", a[2], b[2])
    ELSE NumericBinaryOperands("Integer", a[2], b[2])

Abs(x) == IF x < 0 THEN 0 - x ELSE x
Sign(x) == IF x < 0 THEN 0 - 1 ELSE IF x = 0 THEN 0 ELSE 1

\* v1 / v2 on i128, v2 # 0: the quotient rounded towards zero
integer_div(v1, v2) == Sign(v1) * Sign(v2) * (Abs(v1) \div Abs(v2))

\* v1 / v2 on Decimal, v2 # 0; the numbers of the model are such that the
\* quotient is one of them
decimal_div(v1, v2) == CHOOSE q \in (0 - Abs(v1)) .. Abs(v1) : q * v2 = v1

\* v1 / v2 on f32 and f64
ieee_div(v1, v2) ==
    IF v1 = NAN \/ v2 = NAN THEN NAN
    ELSE IF Abs(v1) = INFINITY
    THEN IF Abs(v2) = INFINITY THEN NAN
         ELSE IF (v1 < 0) = (v2 < 0) THEN INFINITY ELSE NEG_INFINITY
    ELSE IF Abs(v2) = INFINITY THEN 0
    ELSE IF v2 = 0
    THEN IF v1 = 0 THEN NAN ELSE IF v1 > 0 THEN INFINITY ELSE NEG_INFINITY
    ELSE decimal_div(v1, v2)

\* the match of PlanExpression::Div on the operands parse_numeric_operands
\* returned: the division of i128 and the division of Decimal panic on a zero
\* divisor
div(operands) ==
    CASE operands.kind = "Float" -> FloatLiteral(ieee_div(operands.v1, operands.v2))
      [] operands.kind = "Double" -> DoubleLiteral(ieee_div(operands.v1, operands.v2))
      [] operands.kind = "Integer" ->
           IF operands.v2 = 0 THEN Panicked
           ELSE IntegerLiteral(integer_div(operands.v1, operands.v2))
      [] operands.kind = "Decimal" ->
           IF operands.v2 = 0 THEN Panicked
           ELSE DecimalLiteral(decimal_div(operands.v1, operands.v2))
      [] OTHER -> None

\* the comparison that mutates SameTerm: terms that compare equal are the same
MutSameTermByValue(ra, rb) ==
    IF ra.val = None THEN ra
    ELSE IF rb.val = None THEN rb
    ELSE R(BooleanLiteral(equals(ra.val, rb.val)), rb.ev)

\* PlanExpression::SameTerm once its operands evaluated to ra and rb (rb is
\* not looked at when ra is undefined)
SameTerm_on_operands(ra, rb) ==
    IF ra.val = None THEN ra
    ELSE IF rb.val = None THEN rb
    ELSE R(BooleanLiteral(ra.val = rb.val), rb.ev)

\* PlanExpression constructors
EConstant(t) == [ e |-> "Constant", term |-> t ]
EVariable(v) == [ e |-> "Variable", v |-> v ]
EBound(v) == [ e |-> "Bound", v |-> v ]
EOr(a, b) == [ e |-> "Or", a |-> a, b |-> b ]
EAnd(a, b) == [ e |-> "And", a |-> a, b |-> b ]
ESameTerm(a, b) == [ e |-> "SameTerm", a |-> a, b |-> b ]
EUnaryNot(a) == [ e |-> "UnaryNot", a |-> a ]
EIsIRI(a) == [ e |-> "IsIRI", a |-> a ]
EIsBlank(a) == [ e |-> "IsBlank", a |-> a ]
EIsLiteral(a) == [ e |-> "IsLiteral", a |-> a ]
EIRI(a) == [ e |-> "IRI", a |-> a ]
\* BNode(Option<expression>): id is << >> or <<expression>>
EBNode(id) == [ e |-> "BNode", id |-> id ]
ECoalesce(l) == [ e |-> "Coalesce", l |-> l ]
EIf(a, b, c) == [ e |-> "If", a |-> a, b |-> b, c |-> c ]
EEqual(a, b) == [ e |-> "Equal", a |-> a, b |-> b ]
EDiv(a, b) == [ e |-> "Div", a |-> a, b |-> b ]

RECURSIVE eval_expression(_, _, _)
RECURSIVE eval_coalesce(_, _, _)

\* the loop of PlanExpression::Coalesce
eval_coalesce(l, tuple, s) ==
    IF l = << >> THEN R(None, s)
    ELSE LET r == eval_expression(Head(l), tuple, s)
         IN  IF r.val # None THEN r ELSE eval_coalesce(Tail(l), tuple, r.ev)

eval_expression(expression, tuple, s) ==
    CASE expression.e = "Constant" -> R(expression.term, s)
      [] expression.e = "Variable" -> R(get_tuple_value(expression.v, tuple), s)
      [] expression.e = "Bound" -> R(BooleanLiteral(has_tuple_value(expression.v, tuple)), s)
      [] expression.e = "Or" ->
           LET ra == eval_expression(expression.a, tuple, s)
               rb == eval_expression(expression.b, tuple, ra.ev)
           IN  IF ra.val = None THEN ra
               ELSE IF to_bool(ra.val) = BooleanLiteral(TRUE) THEN R(BooleanLiteral(TRUE), ra.ev)
               ELSE IF to_bool(ra.val) = BooleanLiteral(FALSE) THEN rb
               ELSE IF rb.val = None THEN rb
               ELSE IF to_bool(rb.val) = BooleanLiteral(TRUE) THEN R(BooleanLiteral(TRUE), rb.ev)
               ELSE R(None, rb.ev)
      [] expression.e = "And" ->
           LET ra == eval_expression(expression.a, tuple, s)
               rb == eval_expression(expression.b, tuple, ra.ev)
           IN  IF ra.val = None THEN ra
               ELSE IF to_bool(ra.val) = BooleanLiteral(TRUE) THEN rb
               ELSE IF to_bool(ra.val) = BooleanLiteral(FALSE) THEN R(BooleanLiteral(FALSE), ra.ev)
               ELSE IF rb.val = None THEN rb
               ELSE IF to_bool(rb.val) = BooleanLiteral(FALSE) THEN R(BooleanLiteral(FALSE), rb.ev)
               ELSE R(None, rb.ev)
      [] expression.e = "UnaryNot" ->
           LET ra == eval_expression(expression.a, tuple, s)
           IN  IF ra.val = None \/ to_bool(ra.val) = None THEN R(None, ra.ev)
               ELSE R(BooleanLiteral(to_bool(ra.val) = BooleanLiteral(FALSE)), ra.ev)
      [] expression.e = "Equal" ->
           LET ra == eval_expression(expression.a, tuple, s)
               rb == eval_expression(expression.b, tuple, ra.ev)
           IN  IF ra.val = None THEN ra
               ELSE IF rb.val = None THEN rb
               ELSE R(BooleanLiteral(equals(ra.val, rb.val)), rb.ev)
      [] expression.e = "Div" ->
           LET ra == eval_expression(expression.a, tuple, s)
               rb == eval_expression(expression.b, tuple, ra.ev)
           IN  IF ra.val = None THEN ra
               ELSE IF rb.val = None THEN rb
               ELSE R(div(parse_numeric_operands(ra.val, rb.val)), rb.ev)
      [] expression.e = "SameTerm" ->
           SameTerm_on_operands(eval_expression(expression.a, tuple, s),
                                eval_expression(expression.b, tuple,
                                                eval_expression(expression.a, tuple, s).ev))
      [] expression.e = "IsIRI" ->
           LET ra == eval_expression(expression.a, tuple, s)
           IN  IF ra.val = None THEN ra ELSE R(BooleanLiteral(is_named_node(ra.val)), ra.ev)
      [] expression.e = "IsBlank" ->
           LET ra == eval_expression(expression.a, tuple, s)
           IN  IF ra.val = None THEN ra ELSE R(BooleanLiteral(is_blank_node(ra.val)), ra.ev)
      [] expression.e = "IsLiteral" ->
           LET ra == eval_expression(expression.a, tuple, s)
           IN  IF ra.val = None THEN ra ELSE R(BooleanLiteral(is_literal(ra.val)), ra.ev)
      [] expression.e = "IRI" ->
           LET ra == eval_expression(expression.a, tuple, s)
           IN  IF ra.val = None THEN ra
               ELSE IF ra.val[1] = "NamedNode" THEN ra
               ELSE IF ra.val[1] \in {"SimpleLiteral", "StringLiteral"}
                    THEN R(NamedNode(ra.val[2]), ra.ev)
               ELSE R(None, ra.ev)
      [] expression.e = "BNode" ->
           IF expression.id = << >>
           THEN R(BlankNode(s.fresh), [s EXCEPT !.fresh = @ + 1])
           ELSE LET ra == eval_expression(expression.id[1], tuple, s)
                    m == ra.ev.bnodes_map
                    value_id == ra.val[2]
                IN  IF ra.val = None THEN ra
                    ELSE IF ra.val[1] \in {"SimpleLiteral", "StringLiteral"}
                         THEN IF value_id \in DOMAIN m
                              THEN R(BlankNode(m[value_id]), ra.ev)
                              ELSE R(BlankNode(ra.ev.fresh),
                                     [ bnodes_map |->
                                         [ x \in DOMAIN m \cup {value_id} |->
                                             IF x = value_id THEN ra.ev.fresh ELSE m[x] ],
                                       fresh |-> ra.ev.fresh + 1 ])
                    ELSE R(None, ra.ev)
      [] expression.e = "Coalesce" -> eval_coalesce(expression.l, tuple, s)
      [] expression.e = "If" ->
           LET ra == eval_expression(expression.a, tuple, s)
           IN  IF ra.val = None \/ to_bool(ra.val) = None THEN R(None, ra.ev)
               ELSE IF to_bool(ra.val) = BooleanLiteral(TRUE)
                    THEN eval_expression(expression.b, tuple, ra.ev)
                    ELSE eval_expression(expression.c, tuple, ra.ev)

(***************************************************************************)
(* The store.  quads_for_pattern enumerates the quads that agree with the  *)
(* bound positions of the pattern (None is a wildcard at every position,   *)
(* the graph included); an I/O error is an Err item of the enumeration.    *)
(***************************************************************************)
TermA == NamedNode(1)
TermB == NamedNode(2)
TermC == NamedNode(3)

\* a quad is <<subject, predicate, object, graph_name>>
StoreQuads ==
    << <<TermA, TermA, TermB, ENCODED_DEFAULT_GRAPH>>,
       <<TermA, TermB, TermC, ENCODED_DEFAULT_GRAPH>>,
       <<TermA, TermA, TermA, TermA>>,
       <<TermB, TermA, TermB, TermA>>,
       <<TermA, TermB, TermB, TermB>>,
       <<TermB, TermB, TermA, ENCODED_DEFAULT_GRAPH>> >>

quad_matches(quad, s, p, o, g) ==
    /\ s # None => quad[1] = s
    /\ p # None => quad[2] = p
    /\ o # None => quad[3] = o
    /\ g # None => quad[4] = g

quads_for_pattern(s, p, o, g) ==
    LET found == SelectSeq(StoreQuads, LAMBDA quad : quad_matches(quad, s, p, o, g))
    IN  [ i \in 1 .. Len(found) |-> Ok(found[i]) ]
          \o (IF store_fails THEN << Err(1) >> ELSE << >>)

(***************************************************************************)
(* Plan nodes.                                                             *)
(***************************************************************************)
PInit == [ node |-> "Init" ]
PStaticBindings(tuples) == [ node |-> "StaticBindings", tuples |-> tuples ]
PQuadPatternJoin(child, s, p, o, g) ==
    [ node |-> "QuadPatternJoin", child |-> child,
      subject |-> s, predicate |-> p, object |-> o, graph_name |-> g ]
PJoin(left, right) == [ node |-> "Join", left |-> left, right |-> right ]
PLeftJoin(left, right, vs) ==
    [ node |-> "LeftJoin", left |-> left, right |-> right, possible_problem_vars |-> vs ]
PFilter(child, expression) ==
    [ node |-> "Filter", child |-> child, expression |-> expression ]
PUnion(entry, children) == [ node |-> "Union", entry |-> entry, children |-> children ]
PExtend(child, position, expression) ==
    [ node |-> "Extend", child |-> child, position |-> position, expression |-> expression ]
PHashDeduplicate(child) == [ node |-> "HashDeduplicate", child |-> child ]
PSkip(child, count) == [ node |-> "Skip", child |-> child, count |-> count ]
PLimit(child, count) == [ node |-> "Limit", child |-> child, count |-> count ]
PProject(child, mapping) == [ node |-> "Project", child |-> child, mapping |-> mapping ]
PSort(child, by) == [ node |-> "Sort", child |-> child, by |-> by ]
\* Comparator
Asc(expression) == [ comp |-> "Asc", expression |-> expression ]
Desc(expression) == [ comp |-> "Desc", expression |-> expression ]

\* the match of cmp_according_to_expression on the values a and b of the
\* expression on the two tuples
cmp_values(a, b) ==
    IF a # None /\ b # None
    THEN IF is_blank_node(a)
         THEN IF is_blank_node(b) THEN cmp(a[2], b[2]) ELSE Less
         ELSE IF is_named_node(a)
         THEN IF is_named_node(b) THEN unwrap_or(compare_str_ids(a[2], b[2]), Equal)
              ELSE IF is_blank_node(b) THEN Greater
              ELSE Less
         ELSE IF is_named_node(b) \/ is_blank_node(b) THEN Greater
         ELSE unwrap_or(partial_cmp_literals(a, b), Equal)
    ELSE IF a # None THEN Greater
    ELSE IF b # None THEN Less
    ELSE Equal

cmp_according_to_expression(tuple_a, tuple_b, expression, s) ==
    cmp_values(eval_expression(expression, tuple_a, s).val,
               eval_expression(expression, tuple_b, s).val)

reverse(ordering) ==
    IF ordering = Less THEN Greater ELSE IF ordering = Greater THEN Less ELSE Equal

RECURSIVE compare_by(_, _, _, _)

\* one round of the loop of the closure: o is what the comparator Head(by)
\* found
compare_on(a, b, by, s, o) ==
    IF o # Equal
    THEN IF Head(by).comp = "Asc" THEN o ELSE reverse(o)
    ELSE compare_by(a, b, Tail(by), s)

\* the closure Sort hands to sort_unstable_by
compare_by(a, b, by, s) ==
    IF by = << >> THEN Equal
    ELSE compare_on(a, b, by, s,
                    cmp_according_to_expression(a, b, Head(by).expression, s))

\* whether the comparisons c of the values with each other are those of a
\* total order: sort_unstable_by promises a sorted result only then
is_total_order(c) ==
    \A i, j, k \in DOMAIN c :
        /\ c[i][j] = reverse(c[j][i])
        /\ (c[i][j] # Greater /\ c[j][k] # Greater) => c[i][k] # Greater

Comparisons(values, by, s) ==
    [ i \in DOMAIN values |->
        [ j \in DOMAIN values |-> compare_by(values[i], values[j], by, s) ] ]

is_sorted(values, by, s) ==
    \A i \in 1 .. Len(values) - 1 : compare_by(values[i], values[i + 1], by, s) # Greater

Permutations(n) == { p \in [ 1 .. n -> 1 .. n ] : \A i, j \in 1 .. n : p[i] = p[j] => i = j }

\* the place `unstable` gives to the i-th value
Rank(i) == IF i <= Len(unstable) THEN unstable[i] ELSE Len(unstable) + i

\* the values in the order of their ranks
Arranged(values) ==
    [ k \in 1 .. Len(values) |->
        values[CHOOSE i \in DOMAIN values :
                 Cardinality({ j \in DOMAIN values : Rank(j) <= Rank(i) }) = k] ]

\* what sort_unstable_by may leave: a sorted permutation of the values when
\* the closure is a total order on them, and otherwise some permutation
SortOutcomes(values, by, s, total) ==
    { vs \in { [ k \in 1 .. Len(values) |-> values[p[k]] ] : p \in Permutations(Len(values)) } :
        total => is_sorted(vs, by, s) }

\* the outcome `unstable` picks among the outcomes
sort_outcome(arranged, outcomes) ==
    IF arranged \in outcomes THEN arranged ELSE CHOOSE vs \in outcomes : TRUE

sort_unstable_by(values, by, s) ==
    sort_outcome(Arranged(values),
                 SortOutcomes(values, by, s, is_total_order(Comparisons(values, by, s))))

(***************************************************************************)
(* Iterators.                                                              *)
(***************************************************************************)
\* what next() returns: the item (NoItem at the end of the stream), the
\* iterator afterwards and the evaluator state afterwards
N(item, it, s) == [ item |-> item, iter |-> it, ev |-> s ]

\* Option<iterator>::None
NoIter == [ it |-> "None" ]

\* std::iter::once, vec::IntoIter and slice::Iter: the items left to yield
VecIter(items) == [ it |-> "Vec", items |-> items ]

\* mutant of quad_survives: the filters on the graph position are missing
MutQuadSurvivesAnyGraph(node, quad) ==
    /\ (is_var(node.subject) /\ node.subject = node.predicate) => quad[1] = quad[2]
    /\ (is_var(node.subject) /\ node.subject = node.object) => quad[1] = quad[3]
    /\ (is_var(node.predicate) /\ node.predicate = node.object) => quad[2] = quad[3]

\* the self-join filters of QuadPatternJoin (an Err item always passes)
quad_survives(node, quad) ==
    /\ (is_var(node.subject) /\ node.subject = node.predicate) => quad[1] = quad[2]
    /\ (is_var(node.subject) /\ node.subject = node.object) => quad[1] = quad[3]
    /\ (is_var(node.predicate) /\ node.predicate = node.object) => quad[2] = quad[3]
    /\ is_var(node.graph_name) =>
         /\ quad[4] # ENCODED_DEFAULT_GRAPH
         /\ node.graph_name = node.subject => quad[4] = quad[1]
         /\ node.graph_name = node.predicate => quad[4] = quad[2]
         /\ node.graph_name = node.object => quad[4] = quad[3]

\* the closure QuadPatternJoin maps over the surviving quads
quad_to_tuple(node, tuple, quad) ==
    put_pattern_value(node.graph_name, quad[4],
      put_pattern_value(node.object, quad[3],
        put_pattern_value(node.predicate, quad[2],
          put_pattern_value(node.subject, quad[1], tuple))))

\* the closure of QuadPatternJoin's flat_map: the stream one child item expands to
quad_pattern_expand(node, item) ==
    IF IsErr(item) THEN << item >>
    ELSE LET tuple == item[2]
             quads == quads_for_pattern(get_pattern_value(node.subject, tuple),
                                        get_pattern_value(node.predicate, tuple),
                                        get_pattern_value(node.object, tuple),
                                        get_pattern_value(node.graph_name, tuple))
             kept == SelectSeq(quads, LAMBDA q : IsErr(q) \/ quad_survives(node, q[2]))
         IN  [ i \in 1 .. Len(kept) |->
                 IF IsErr(kept[i]) THEN kept[i]
                 ELSE Ok(quad_to_tuple(node, tuple, kept[i][2])) ]

\* the loop body of BadLeftJoinIterator::next over problem_vars
RECURSIVE reconcile(_, _, _, _)
reconcile(problem_vars, input, tuple, conflict) ==
    IF problem_vars = << >> THEN [ tuple |-> tuple, conflict |-> conflict ]
    ELSE LET problem_var == Head(problem_vars)
             input_value == input[problem_var + 1]
             result_value == get_tuple_value(problem_var, tuple)
         IN  IF input_value = None
             THEN reconcile(Tail(problem_vars), input, tuple, conflict)
             ELSE IF result_value # None
             THEN reconcile(Tail(problem_vars), input, tuple,
                            conflict \/ input_value # result_value)
             ELSE reconcile(Tail(problem_vars), input,
                            put_value(problem_var, input_value, tuple), conflict)

RECURSIVE eval_plan(_, _, _)
RECURSIVE IterNext(_, _)
RECURSIVE DrainFrom(_, _)
RECURSIVE eval_children(_, _, _)
RECURSIVE QuadPatternJoin_next(_, _)
RECURSIVE JoinIterator_next(_, _)
RECURSIVE LeftJoinIterator_next(_, _)
RECURSIVE LeftJoinIterator_next_left(_, _)
RECURSIVE BadLeftJoinIterator_next(_, _)
RECURSIVE UnionIterator_next(_, _)
RECURSIVE Filter_next(_, _)
RECURSIVE Extend_next(_, _)
RECURSIVE HashDeduplicateIterator_next(_, _)
RECURSIVE Skip_next(_, _)

\* `for result in iter`: the items collected so far and the result r of the
\* latest next(); yields every item of the iterator and the evaluator state after
DrainFrom(acc, r) ==
    IF r.item = NoItem THEN [ items |-> acc, ev |-> r.ev ]
    ELSE IF r.item = Panic THEN [ items |-> Append(acc, Panic), ev |-> r.ev ]
    ELSE DrainFrom(Append(acc, r.item), IterNext(r.iter, r.ev))

\* the whole stream of a freshly built iterator c = [iter, ev]
Drain(c) == DrainFrom(<< >>, IterNext(c.iter, c.ev))

Vec_next(it, s) ==
    IF it.items = << >> THEN N(NoItem, it, s)
    ELSE N(Head(it.items), VecIter(Tail(it.items)), s)

\* FlatMap::next once the inner stream is exhausted: r is the child's next item
QuadPatternJoin_on_item(it, r) ==
    IF r.item = NoItem THEN N(NoItem, [it EXCEPT !.child_iter = r.iter], r.ev)
    ELSE QuadPatternJoin_next(
           [it EXCEPT !.child_iter = r.iter,
                      !.inner = quad_pattern_expand(it.node, r.item)], r.ev)

\* FlatMap::next: the current inner stream first, then the next child item
QuadPatternJoin_next(it, s) ==
    IF it.inner # << >>
    THEN N(Head(it.inner), [it EXCEPT !.inner = Tail(@)], s)
    ELSE QuadPatternJoin_on_item(it, IterNext(it.child_iter, s))

\* the loop of JoinIterator::next: every successful combination, in the order of left
join_with_left(left, right_tuple) ==
    LET combined == [ i \in 1 .. Len(left) |-> combine_tuples(left[i], right_tuple) ]
        pushed == SelectSeq(combined, LAMBDA c : c # NoTuple)
    IN  [ i \in 1 .. Len(pushed) |-> Ok(pushed[i]) ]

\* JoinIterator::next after self.right_iter.next() returned r
JoinIterator_on_right(it, r) ==
    IF r.item = NoItem \/ IsErr(r.item)
    THEN N(r.item, [it EXCEPT !.right_iter = r.iter], r.ev)
    ELSE JoinIterator_next(
           [it EXCEPT !.right_iter = r.iter,
                      !.buffered_results = join_with_left(it.left, r.item[2])], r.ev)

\* JoinIterator::next: buffered_results is a stack (Vec::pop takes the last)
JoinIterator_next(it, s) ==
    IF it.buffered_results # << >>
    THEN N(it.buffered_results[Len(it.buffered_results)],
           [it EXCEPT !.buffered_results = SubSeq(@, 1, Len(@) - 1)], s)
    ELSE JoinIterator_on_right(it, IterNext(it.right_iter, s))

\* mutant of LeftJoinIterator_on_first: a left tuple without right rows is not emitted
MutLeftJoinSkipsLeft(it, left_item, first) ==
    IF first.item # NoItem
    THEN N(first.item, [it EXCEPT !.current_right_iter = << first.iter >>], first.ev)
    ELSE LeftJoinIterator_next_left(it, first.ev)

\* LeftJoinIterator::next after the first next() of the new right iterator
LeftJoinIterator_on_first(it, left_item, first) ==
    IF first.item # NoItem
    THEN N(first.item, [it EXCEPT !.current_right_iter = << first.iter >>], first.ev)
    ELSE N(left_item, it, first.ev)

\* LeftJoinIterator::next with the right iterator built for the left tuple
LeftJoinIterator_on_right_plan(it, left_item, right) ==
    LeftJoinIterator_on_first(it, left_item, IterNext(right.iter, right.ev))

\* LeftJoinIterator::next after self.left_iter.next() returned l
LeftJoinIterator_on_left(it, l) ==
    IF l.item = NoItem \/ IsErr(l.item)
    THEN N(l.item, [it EXCEPT !.left_iter = l.iter], l.ev)
    ELSE LeftJoinIterator_on_right_plan([it EXCEPT !.left_iter = l.iter], l.item,
                                        eval_plan(it.right_plan, l.item[2], l.ev))

\* the second half of LeftJoinIterator::next: `match self.left_iter.next()?`
LeftJoinIterator_next_left(it, s) ==
    LeftJoinIterator_on_left(it, IterNext(it.left_iter, s))

\* LeftJoinIterator::next after the current right iterator returned cur
LeftJoinIterator_on_current(it, cur) ==
    IF cur.item # NoItem
    THEN N(cur.item, [it EXCEPT !.current_right_iter = << cur.iter >>], cur.ev)
    ELSE LeftJoinIterator_next_left([it EXCEPT !.current_right_iter = << cur.iter >>], cur.ev)

\* current_right_iter is << >> (None) or << iterator >>
LeftJoinIterator_next(it, s) ==
    IF it.current_right_iter = << >>
    THEN LeftJoinIterator_next_left(it, s)
    ELSE LeftJoinIterator_on_current(it, IterNext(it.current_right_iter[1], s))

\* mutant of BadLeftJoinIterator_on_reconciled: a row in conflict is emitted too
MutEmitsOnConflict(it, s, rec) == N(Ok(rec.tuple), it, s)

\* BadLeftJoinIterator::next after the loop over problem_vars
BadLeftJoinIterator_on_reconciled(it, s, rec) ==
    IF ~rec.conflict THEN N(Ok(rec.tuple), it, s)
    ELSE BadLeftJoinIterator_next(it, s)

\* BadLeftJoinIterator::next after self.iter.next() returned r
BadLeftJoinIterator_on_item(it, r) ==
    IF r.item = NoItem \/ IsErr(r.item) THEN N(r.item, [it EXCEPT !.iter = r.iter], r.ev)
    ELSE BadLeftJoinIterator_on_reconciled(
           [it EXCEPT !.iter = r.iter], r.ev,
           reconcile(it.problem_vars, it.input, r.item[2], FALSE))

BadLeftJoinIterator_next(it, s) ==
    BadLeftJoinIterator_on_item(it, LeftJoinIterator_next(it.iter, s))

\* mutant of push_iter: the new iterator is put in front of the others
MutPushIterFront(acc, c) == [ iters |-> << c.iter >> \o acc.iters, ev |-> c.ev ]

\* current_iters.push(eval_plan(plan, input_tuple)): c is the iterator built
push_iter(acc, c) == [ iters |-> Append(acc.iters, c.iter), ev |-> c.ev ]

\* `for plan in self.children_plan { current_iters.push(eval_plan(plan, input)) }`
eval_children(children_plan, input_tuple, acc) ==
    IF children_plan = << >> THEN acc
    ELSE eval_children(Tail(children_plan), input_tuple,
                       push_iter(acc, eval_plan(Head(children_plan), input_tuple, acc.ev)))

\* UnionIterator::next with the iterators cs of the children pushed
UnionIterator_on_children(it, cs) ==
    UnionIterator_next([it EXCEPT !.current_iters = cs.iters], cs.ev)

\* UnionIterator::next after self.input_iter.next() returned r
UnionIterator_on_input(it, r) ==
    IF r.item = NoItem \/ IsErr(r.item)
    THEN N(r.item, [it EXCEPT !.input_iter = r.iter], r.ev)
    ELSE UnionIterator_on_children(
           [it EXCEPT !.input_iter = r.iter],
           eval_children(it.children_plan, r.item[2], [ iters |-> << >>, ev |-> r.ev ]))

\* UnionIterator::next after the popped iterator returned r: it is pushed back
\* when it yielded an item and dropped otherwise
UnionIterator_on_popped(it, r) ==
    IF r.item # NoItem
    THEN N(r.item, [it EXCEPT !.current_iters[Len(it.current_iters)] = r.iter], r.ev)
    ELSE UnionIterator_next(
           [it EXCEPT !.current_iters = SubSeq(@, 1, Len(@) - 1)], r.ev)

\* UnionIterator::next: current_iters is a stack (Vec::pop takes the last)
UnionIterator_next(it, s) ==
    IF it.current_iters # << >>
    THEN UnionIterator_on_popped(it, IterNext(it.current_iters[Len(it.current_iters)], s))
    ELSE UnionIterator_on_input(it, IterNext(it.input_iter, s))

\* mutant of Filter_on_value: unwrap_or(true), a row without a boolean value is kept
MutFilterKeepsUndefined(it, item, v) ==
    IF v.val = None \/ to_bool(v.val) # BooleanLiteral(FALSE)
    THEN N(item, it, v.ev)
    ELSE Filter_next(it, v.ev)

\* the closure of PlanNode::Filter with the value v of the expression
Filter_on_value(it, item, v) ==
    IF v.val # None /\ to_bool(v.val) = BooleanLiteral(TRUE)
    THEN N(item, it, v.ev)
    ELSE Filter_next(it, v.ev)

Filter_on_item(it, r) ==
    IF r.item = NoItem \/ IsErr(r.item)
    THEN N(r.item, [it EXCEPT !.child_iter = r.iter], r.ev)
    ELSE Filter_on_value([it EXCEPT !.child_iter = r.iter], r.item,
                         eval_expression(it.expression, r.item[2], r.ev))

\* Iterator::filter with the closure of PlanNode::Filter
Filter_next(it, s) == Filter_on_item(it, IterNext(it.child_iter, s))

\* mutant of Extend_on_value: a row on which the expression is undefined is
\* emitted unchanged
MutExtendKeepsRow(it, tuple, v) ==
    IF v.val # None
    THEN N(Ok(put_value(it.position, v.val, tuple)), it, v.ev)
    ELSE N(Ok(tuple), it, v.ev)

\* the closure of PlanNode::Extend with the value v of the expression
Extend_on_value(it, tuple, v) ==
    IF v.val # None
    THEN N(Ok(put_value(it.position, v.val, tuple)), it, v.ev)
    ELSE Extend_next(it, v.ev)

Extend_on_item(it, r) ==
    IF r.item = NoItem \/ IsErr(r.item)
    THEN N(r.item, [it EXCEPT !.child_iter = r.iter], r.ev)
    ELSE Extend_on_value([it EXCEPT !.child_iter = r.iter], r.item[2],
                         eval_expression(it.expression, r.item[2], r.ev))

\* Iterator::filter_map with the closure of PlanNode::Extend
Extend_next(it, s) == Extend_on_item(it, IterNext(it.child_iter, s))

\* the dynamic dispatch of Box<dyn Iterator>::next
\* mutant of HashDeduplicateIterator_on_item: the tuple is not remembered
MutDeduplicateForgets(it, r) ==
    IF r.item = NoItem \/ IsErr(r.item) \/ r.item[2] \notin it.already_seen
    THEN N(r.item, [it EXCEPT !.child_iter = r.iter], r.ev)
    ELSE HashDeduplicateIterator_next([it EXCEPT !.child_iter = r.iter], r.ev)

\* HashDeduplicateIterator::next after self.iter.next() returned r
HashDeduplicateIterator_on_item(it, r) ==
    IF r.item = NoItem \/ IsErr(r.item)
    THEN N(r.item, [it EXCEPT !.child_iter = r.iter], r.ev)
    ELSE IF r.item[2] \notin it.already_seen
    THEN N(r.item, [it EXCEPT !.child_iter = r.iter,
                              !.already_seen = @ \cup { r.item[2] }], r.ev)
    ELSE HashDeduplicateIterator_next([it EXCEPT !.child_iter = r.iter], r.ev)

HashDeduplicateIterator_next(it, s) ==
    HashDeduplicateIterator_on_item(it, IterNext(it.child_iter, s))

\* mutant of Skip_on_item: one item too few is dropped
MutSkipOneLess(it, r) ==
    IF it.n <= 1 \/ r.item = NoItem
    THEN N(r.item, [it EXCEPT !.child_iter = r.iter, !.n = 0], r.ev)
    ELSE Skip_next([it EXCEPT !.child_iter = r.iter, !.n = @ - 1], r.ev)

\* Iterator::skip: the first next() drops `n` items (Iterator::nth), r is the
\* item the child returned with n still to drop
Skip_on_item(it, r) ==
    IF it.n = 0 \/ r.item = NoItem
    THEN N(r.item, [it EXCEPT !.child_iter = r.iter, !.n = 0], r.ev)
    ELSE Skip_next([it EXCEPT !.child_iter = r.iter, !.n = @ - 1], r.ev)

Skip_next(it, s) == Skip_on_item(it, IterNext(it.child_iter, s))

\* Iterator::take: the child is not asked once n items have been taken
Take_on_item(it, r) == N(r.item, [it EXCEPT !.child_iter = r.iter, !.n = @ - 1], r.ev)

Take_next(it, s) ==
    IF it.n = 0 THEN N(NoItem, it, s)
    ELSE Take_on_item(it, IterNext(it.child_iter, s))

\* the closure of PlanNode::Project: tuple[*key] panics when key is not an index
\* of the tuple
Project_on_item(it, r) ==
    IF r.item = NoItem \/ IsErr(r.item)
    THEN N(r.item, [it EXCEPT !.child_iter = r.iter], r.ev)
    ELSE IF \E i \in DOMAIN it.mapping : it.mapping[i] >= Len(r.item[2])
    THEN N(Panic, [it EXCEPT !.child_iter = r.iter], r.ev)
    ELSE N(Ok([ i \in DOMAIN it.mapping |-> r.item[2][it.mapping[i] + 1] ]),
           [it EXCEPT !.child_iter = r.iter], r.ev)

Project_next(it, s) == Project_on_item(it, IterNext(it.child_iter, s))

IterNext(it, s) ==
    CASE it.it = "Vec" -> Vec_next(it, s)
      [] it.it = "QuadPatternJoin" -> QuadPatternJoin_next(it, s)
      [] it.it = "Join" -> JoinIterator_next(it, s)
      [] it.it = "LeftJoin" -> LeftJoinIterator_next(it, s)
      [] it.it = "BadLeftJoin" -> BadLeftJoinIterator_next(it, s)
      [] it.it = "Union" -> UnionIterator_next(it, s)
      [] it.it = "Filter" -> Filter_next(it, s)
      [] it.it = "Extend" -> Extend_next(it, s)
      [] it.it = "HashDeduplicate" -> HashDeduplicateIterator_next(it, s)
      [] it.it = "Skip" -> Skip_next(it, s)
      [] it.it = "Take" -> Take_next(it, s)
      [] it.it = "Project" -> Project_next(it, s)

\* the iterators eval_plan boxes; c, l, r are the iterators of the subplans
QuadPatternJoinIter(node, c) ==
    [ iter |-> [ it |-> "QuadPatternJoin", node |-> node,
                 child_iter |-> c.iter, inner |-> << >> ],
      ev |-> c.ev ]

\* the JoinIterator that mutates JoinIter: the errors of the left side are
\* not kept
MutJoinForgetsErrors(items, r) ==
    LET left_values == SelectSeq(items, IsOk)
    IN  [ iter |-> [ it |-> "Join",
                     left |-> [ i \in 1 .. Len(left_values) |-> left_values[i][2] ],
                     right_iter |-> r.iter,
                     buffered_results |-> << >> ],
          ev |-> r.ev ]

\* JoinIterator { left: left_values, right_iter, buffered_results: errors }
JoinIter(items, r) ==
    LET left_values == SelectSeq(items, IsOk)
    IN  [ iter |-> [ it |-> "Join",
                     left |-> [ i \in 1 .. Len(left_values) |-> left_values[i][2] ],
                     right_iter |-> r.iter,
                     buffered_results |-> SelectSeq(items, IsErr) ],
          ev |-> r.ev ]

\* PlanNode::Join once the left side has been read into d
JoinOnLeft(node, seed, d) == JoinIter(d.items, eval_plan(node.right, seed, d.ev))

\* LeftJoinIterator, wrapped in BadLeftJoinIterator when problem_vars is not empty
LeftJoinIter(node, seed, problem_vars, l) ==
    LET lj == [ it |-> "LeftJoin", right_plan |-> node.right,
                left_iter |-> l.iter, current_right_iter |-> << >> ]
    IN  IF problem_vars = << >>
        THEN [ iter |-> lj, ev |-> l.ev ]
        ELSE [ iter |-> [ it |-> "BadLeftJoin", input |-> seed, iter |-> lj,
                          problem_vars |-> problem_vars ],
               ev |-> l.ev ]

\* PlanNode::LeftJoin with problem_vars computed
LeftJoinOnVars(node, seed, problem_vars, s) ==
    LeftJoinIter(node, seed, problem_vars,
                 eval_plan(node.left, unbind_variables(seed, problem_vars), s))

FilterIter(node, c) ==
    [ iter |-> [ it |-> "Filter", child_iter |-> c.iter, expression |-> node.expression ],
      ev |-> c.ev ]

UnionIter(node, c) ==
    [ iter |-> [ it |-> "Union", children_plan |-> node.children,
                 input_iter |-> c.iter, current_iters |-> << >> ],
      ev |-> c.ev ]

ExtendIter(node, c) ==
    [ iter |-> [ it |-> "Extend", child_iter |-> c.iter,
                 position |-> node.position, expression |-> node.expression ],
      ev |-> c.ev ]

HashDeduplicateIter(c) ==
    [ iter |-> [ it |-> "HashDeduplicate", child_iter |-> c.iter, already_seen |-> {} ],
      ev |-> c.ev ]

SkipIter(node, c) ==
    [ iter |-> [ it |-> "Skip", child_iter |-> c.iter, n |-> node.count ], ev |-> c.ev ]

TakeIter(node, c) ==
    [ iter |-> [ it |-> "Take", child_iter |-> c.iter, n |-> node.count ], ev |-> c.ev ]

ProjectIter(node, c) ==
    [ iter |-> [ it |-> "Project", child_iter |-> c.iter, mapping |-> node.mapping ],
      ev |-> c.ev ]

\* the rows of a list of Ok items
Values(items) == [ i \in 1 .. Len(items) |-> items[i][2] ]

\* Sort with the items d of its child: the errors, then the sorted rows
SortIter(errors, values, s) ==
    [ iter |-> VecIter(errors \o [ i \in DOMAIN values |-> Ok(values[i]) ]), ev |-> s ]

\* PlanNode::Sort once its child has been read into d
SortOnChild(node, d) ==
    SortIter(SelectSeq(d.items, IsErr),
             sort_unstable_by(Values(SelectSeq(d.items, IsOk)), node.by, d.ev), d.ev)

\* eval_plan: the iterator of a plan node seeded with `seed`, and the evaluator
\* state after building it (Join reads its whole left side while being built)
eval_plan(node, seed, s) ==
    CASE node.node = "Init" -> [ iter |-> VecIter(<< Ok(seed) >>), ev |-> s ]
      [] node.node = "StaticBindings" ->
           [ iter |-> VecIter([ i \in 1 .. Len(node.tuples) |-> Ok(node.tuples[i]) ]),
             ev |-> s ]
      [] node.node = "QuadPatternJoin" ->
           QuadPatternJoinIter(node, eval_plan(node.child, seed, s))
      [] node.node = "Join" ->
           JoinOnLeft(node, seed, Drain(eval_plan(node.left, seed, s)))
      [] node.node = "LeftJoin" ->
           LeftJoinOnVars(node, seed,
                          bind_variables_in_set(seed, node.possible_problem_vars), s)
      [] node.node = "Filter" -> FilterIter(node, eval_plan(node.child, seed, s))
      [] node.node = "Union" -> UnionIter(node, eval_plan(node.entry, seed, s))
      [] node.node = "Extend" -> ExtendIter(node, eval_plan(node.child, seed, s))
      [] node.node = "HashDeduplicate" ->
           HashDeduplicateIter(eval_plan(node.child, seed, s))
      [] node.node = "Skip" -> SkipIter(node, eval_plan(node.child, seed, s))
      [] node.node = "Limit" -> TakeIter(node, eval_plan(node.child, seed, s))
      [] node.node = "Project" -> ProjectIter(node, eval_plan(node.child, seed, s))
      [] node.node = "Sort" -> SortOnChild(node, Drain(eval_plan(node.child, seed, s)))

(***************************************************************************)
(* The plans, seeds and store behaviours the model is run on.  A seed is   *)
(* the tuple eval_plan is called with: the all-unbound tuple of            *)
(* evaluate_select_plan, the empty tuple of the other query forms, or the  *)
(* row an enclosing LeftJoin or Union hands to its subplan.                *)
(***************************************************************************)
\* the sequences of at most MaxRows elements of U
Streams(U) == UNION { [ 1 .. n -> U ] : n \in 0 .. MaxRows }

Scenario(p, seed, fails) == [ plan |-> p, from |-> seed, fails |-> fails ]

\* ?0 <A> ?1 in the default graph
ScanA == PQuadPatternJoin(PInit, PVariable(0), PConstant(TermA), PVariable(1),
                          PConstant(ENCODED_DEFAULT_GRAPH))

SeedRows == { << >>, << TermA >>, << None, TermB >> }

UnionChildren ==
    { PExtend(PInit, 1, EConstant(TermC)),
      PStaticBindings(<< << TermB >>, << TermA >> >>),
      ScanA }

UnionEntries == { PStaticBindings(rows) : rows \in Streams(SeedRows) } \cup { ScanA }

UnionScenarios ==
    { Scenario(PUnion(entry, children), << >>, fails) :
        entry \in UnionEntries,
        children \in UNION { [ 1 .. k -> UnionChildren ] : k \in 1 .. 3 },
        fails \in BOOLEAN }

LeftRows == { << TermA >>, << TermB >>, << TermA, TermC >> }

LeftPlans == { PStaticBindings(rows) : rows \in Streams(LeftRows) } \cup { PInit, ScanA }

RightPlans ==
    { PStaticBindings(<< >>),
      PStaticBindings(<< << TermB, TermA >> >>),
      PExtend(PInit, 1, EConstant(TermB)),
      PFilter(PInit, ESameTerm(EVariable(0), EConstant(TermA))),
      ScanA }

LeftJoinSeeds == { << >>, << TermA, TermB >>, << TermA, TermC >>, << None, TermC >> }

LeftJoinScenarios ==
    { Scenario(PLeftJoin(left, right, vs), seed, fails) :
        left \in LeftPlans, right \in RightPlans,
        vs \in { << >>, << 1 >>, << 1, 0 >> },
        seed \in LeftJoinSeeds, fails \in BOOLEAN }

JoinRows == { << TermA >>, << TermB, None >>, << None, TermA >> }

JoinPlans == { PStaticBindings(rows) : rows \in Streams(JoinRows) } \cup { PInit, ScanA }

JoinScenarios ==
    { Scenario(PJoin(left, right), seed, fails) :
        left \in JoinPlans, right \in JoinPlans,
        seed \in { << >>, << TermB >> }, fails \in BOOLEAN }

ScanRows == { << TermA >>, << None, TermB >> }

ScanScenarios ==
    { Scenario(PQuadPatternJoin(PStaticBindings(rows), s, p, o, g), << >>, fails) :
        rows \in Streams(ScanRows),
        s \in { PConstant(TermA), PVariable(0), PVariable(1) },
        p \in { PConstant(TermA), PVariable(0), PVariable(1) },
        o \in { PVariable(0), PVariable(1), PVariable(2) },
        g \in { PConstant(ENCODED_DEFAULT_GRAPH), PVariable(0), PVariable(2) },
        fails \in BOOLEAN }

FilterRows ==
    { << >>, << BooleanLiteral(TRUE) >>, << BooleanLiteral(FALSE) >>,
      << ENCODED_EMPTY_SIMPLE_LITERAL >>, << SimpleLiteral(1) >>,
      << IntegerLiteral(0) >>, << TermA >> }

FilterExpressions ==
    { EVariable(0), EBound(0), EUnaryNot(EVariable(0)),
      EOr(EVariable(0), EConstant(BooleanLiteral(TRUE))),
      EAnd(EVariable(0), EConstant(SimpleLiteral(1))),
      ECoalesce(<< EVariable(0), EConstant(IntegerLiteral(3)) >>),
      EIf(EVariable(0), EConstant(TermA), EConstant(StringLiteral(1))),
      EIsIRI(EVariable(0)) }

FilterScenarios ==
    { Scenario(PFilter(PStaticBindings(rows), e), << >>, FALSE) :
        rows \in Streams(FilterRows), e \in FilterExpressions }
      \cup
    { Scenario(PFilter(ScanA, EBound(1)), seed, fails) :
        seed \in SeedRows, fails \in BOOLEAN }

ExtendRows == { << >>, << TermA >>, << None, TermB >>, << TermA, TermB >> }

ExtendExpressions ==
    { EConstant(TermC), EVariable(0), EVariable(1), EBound(1),
      EIRI(EVariable(1)), ECoalesce(<< EVariable(1), EVariable(0) >>) }

ExtendScenarios ==
    { Scenario(PExtend(PStaticBindings(rows), k, e), << >>, FALSE) :
        rows \in Streams(ExtendRows), k \in 0 .. 2, e \in ExtendExpressions }
      \cup
    { Scenario(PExtend(ScanA, 2, EVariable(1)), seed, fails) :
        seed \in SeedRows, fails \in BOOLEAN }

\* BNode(?0) evaluated twice for every row: BIND(BNODE(?0) AS ?1) BIND(BNODE(e) AS ?2)
BNodeRows == { << SimpleLiteral(1) >>, << StringLiteral(1) >>, << SimpleLiteral(2) >>, << TermA >> }

BNodeScenarios ==
    { Scenario(PExtend(PExtend(PStaticBindings(rows), 1, EBNode(<< EVariable(0) >>)),
                       2, EBNode(id)), << >>, FALSE) :
        rows \in Streams(BNodeRows),
        id \in { << >>, << EVariable(0) >>, << EConstant(SimpleLiteral(2)) >> } }

\* SELECT with a projection; ?1 lies past the end of the row << TermA >>
ProjectRows == { << TermA >>, << TermA, TermB >>, << None, TermB >> }

ProjectScenarios ==
    { Scenario(PProject(PStaticBindings(rows), mapping), << >>, FALSE) :
        rows \in Streams(ProjectRows),
        mapping \in { << >>, << 0 >>, << 1 >>, << 1, 0 >> } }
      \cup
    { Scenario(PProject(ScanA, mapping), << >>, fails) :
        mapping \in { << 1, 0 >>, << 2 >> }, fails \in BOOLEAN }

\* a row, another one, the first again, the first with a trailing unbound slot
RepeatedRows ==
    PStaticBindings(<< << TermA >>, << TermB >>, << TermA >>, << TermA, None >>, << TermB >> >>)

\* the rows of ScanA twice
ScanTwice == PUnion(PStaticBindings(<< << >>, << >> >>), << ScanA >>)

DistinctRows == { << TermA >>, << TermB >>, << TermA, None >> }

DistinctScenarios ==
    { Scenario(PHashDeduplicate(child), << >>, fails) :
        child \in { PStaticBindings(rows) : rows \in Streams(DistinctRows) }
                    \cup { RepeatedRows, ScanA, ScanTwice },
        fails \in BOOLEAN }

\* a left side that yields two errors when the store fails
JoinErrorScenarios ==
    { Scenario(PJoin(ScanTwice, right), << >>, fails) :
        right \in { PInit, ScanA, PStaticBindings(<< << TermA >>, << TermB >> >>) },
        fails \in BOOLEAN }

MaxCount == 2

SliceScenarios ==
    { Scenario(PLimit(PSkip(child, n), m), << >>, fails) :
        child \in { PStaticBindings(rows) : rows \in Streams({ << TermA >>, << TermB >> }) }
                    \cup { RepeatedRows, ScanA, ScanTwice },
        n \in 0 .. MaxCount, m \in 0 .. MaxCount, fails \in BOOLEAN }

SortRows ==
    { << IntegerLiteral(1), TermA >>, << IntegerLiteral(2), TermA >>,
      << SimpleLiteral(1), TermB >> }

SortComparators ==
    { << Asc(EVariable(0)) >>, << Desc(EVariable(0)) >>,
      << Desc(EVariable(1)), Asc(EVariable(0)) >> }

SortScenarios ==
    { Scenario(PSort(child, by), << >>, fails) :
        child \in { PStaticBindings(rows) :
                      rows \in UNION { [ 1 .. n -> SortRows ] : n \in 0 .. MaxSortRows } }
                    \cup { ScanA },
        by \in SortComparators, fails \in BOOLEAN }

Scenarios ==
    UnionScenarios \cup LeftJoinScenarios \cup JoinScenarios \cup ScanScenarios
      \cup FilterScenarios \cup ExtendScenarios \cup BNodeScenarios
      \cup ProjectScenarios \cup DistinctScenarios \cup SliceScenarios
      \cup SortScenarios \cup JoinErrorScenarios

(***************************************************************************)
(* The evaluation of a plan: eval_plan builds the iterator, the caller     *)
(* pulls it until next() returns None.                                     *)
(***************************************************************************)
Init ==
    /\ \E sc \in Scenarios :
         /\ plan = sc.plan
         /\ from = sc.from
         /\ store_fails = sc.fails
    /\ iter = NoIter
    /\ ev = InitEv
    /\ out = << >>
    /\ pc = "start"
    /\ template = << >>
    /\ buffered_results = << >>
    /\ bnodes = << >>
    /\ resolved = << >>
    /\ unstable \in IF plan.node = "Sort" THEN Permutations(MaxSortRows)
                    ELSE { [ i \in 1 .. MaxSortRows |-> i ] }

\* the effect of eval_plan having returned r
Started(r) ==
    /\ iter' = r.iter
    /\ ev' = r.ev

\* the effect of next() having returned r
Pulled(r) ==
    /\ iter' = r.iter
    /\ ev' = r.ev
    /\ out' = IF r.item = NoItem \/ r.item = Panic THEN out ELSE Append(out, r.item)
    /\ pc' = IF r.item = NoItem THEN "done"
             ELSE IF r.item = Panic THEN "panicked" ELSE "running"

\* self.eval_plan(plan, from)
Evaluate ==
    /\ pc = "start"
    /\ Started(eval_plan(plan, from, ev))
    /\ pc' = "running"
    /\ UNCHANGED <<plan, from, store_fails, out, template, buffered_results, bnodes, resolved, unstable>>

\* one call of next() on the iterator eval_plan returned
Pull ==
    /\ pc = "running"
    /\ Pulled(IterNext(iter, ev))
    /\ UNCHANGED <<plan, from, store_fails, template, buffered_results, bnodes, resolved, unstable>>

Next == Evaluate \/ Pull

Spec == Init /\ [][Next]_vars

(***************************************************************************)
(* CONSTRUCT: evaluate_construct_plan wraps the iterator of the plan in a   *)
(* ConstructIterator, which the caller pulls until next() returns None.     *)
(***************************************************************************)
MaxBNodes == 2

\* TripleTemplateValue::Constant(term) | Variable(slot) | BlankNode(template_index)
TConstant(term) == <<"Constant", term>>
TVariable(v) == <<"Variable", v>>
TBlankNode(id) == <<"BlankNode", id>>

TripleTemplate(s, p, o) == [ subject |-> s, predicate |-> p, object |-> o ]

\* the call does not return: `while *id >= tuple.len() { bnodes.push(..) }`
\* changes neither id nor tuple
Loops == <<"Loops", 0>>

get_triple_template_value(selector, tuple) ==
    CASE selector[1] = "Constant" -> selector[2]
      [] selector[1] = "Variable" -> get_tuple_value(selector[2], tuple)
      [] selector[1] = "BlankNode" ->
           IF selector[2] >= Len(tuple) THEN Loops ELSE tuple[selector[2] + 1]

\* the decoder rejects a subject that is no named or blank node and a predicate
\* that is no named node
decode_triple(subject, predicate, object) ==
    IF /\ is_named_node(subject) \/ is_blank_node(subject)
       /\ is_named_node(predicate)
       /\ object # ENCODED_DEFAULT_GRAPH
    THEN Ok(<< subject, predicate, object >>)
    ELSE Err(2)

\* the state of the loop over self.template: the triples pushed, the calls of
\* get_triple_template_value that returned (selector and value), and whether a
\* call entered the loop that does not end
Filled(b, calls, loops) == [ buffered_results |-> b, calls |-> calls, loops |-> loops ]

\* one template of the loop: the three values are computed, in this order, before
\* they are matched
RECURSIVE fill_templates(_, _, _)
fill_templates(templates, tuple, acc) ==
    IF templates = << >> THEN acc
    ELSE LET t == Head(templates)
             subject == get_triple_template_value(t.subject, tuple)
             predicate == get_triple_template_value(t.predicate, tuple)
             object == get_triple_template_value(t.object, tuple)
             c1 == Append(acc.calls, << t.subject, subject >>)
             c2 == Append(c1, << t.predicate, predicate >>)
             c3 == Append(c2, << t.object, object >>)
         IN  IF subject = Loops THEN Filled(acc.buffered_results, acc.calls, TRUE)
             ELSE IF predicate = Loops THEN Filled(acc.buffered_results, c1, TRUE)
             ELSE IF object = Loops THEN Filled(acc.buffered_results, c2, TRUE)
             ELSE IF subject # None /\ predicate # None /\ object # None
             THEN fill_templates(Tail(templates), tuple,
                    Filled(Append(acc.buffered_results,
                                  decode_triple(subject, predicate, object)), c3, FALSE))
             ELSE Filled(<< >>, c3, FALSE)

\* what ConstructIterator::next returns and leaves behind; looping when it does
\* not return
CN(item, c, looping) == [ item |-> item, c |-> c, looping |-> looping ]

Row(tuple, calls) == [ tuple |-> tuple, calls |-> calls ]

RECURSIVE ConstructIterator_next(_)

\* ConstructIterator::next after the loop over self.template for the row `tuple`
ConstructIterator_on_filled(c, tuple, f) ==
    IF f.loops
    THEN CN(NoItem, [c EXCEPT !.buffered_results = f.buffered_results,
                              !.resolved = Append(@, Row(tuple, f.calls))], TRUE)
    ELSE ConstructIterator_next(
           [c EXCEPT !.buffered_results = f.buffered_results,
                     !.resolved = Append(@, Row(tuple, f.calls))])

\* ConstructIterator::next after self.iter.next() returned r
ConstructIterator_on_item(c, r) ==
    IF r.item = NoItem \/ IsErr(r.item)
    THEN CN(r.item, [c EXCEPT !.iter = r.iter, !.ev = r.ev], FALSE)
    ELSE ConstructIterator_on_filled([c EXCEPT !.iter = r.iter, !.ev = r.ev], r.item[2],
                                     fill_templates(c.template, r.item[2],
                                                    Filled(<< >>, << >>, FALSE)))

\* ConstructIterator::next: buffered_results is a stack (Vec::pop takes the last)
ConstructIterator_next(c) ==
    IF c.buffered_results # << >>
    THEN CN(c.buffered_results[Len(c.buffered_results)],
            [c EXCEPT !.buffered_results = SubSeq(@, 1, Len(@) - 1)], FALSE)
    ELSE ConstructIterator_on_item(c, IterNext(c.iter, c.ev))

ConstructRows ==
    { << TermA, TermB >>, << TermA >>, << SimpleLiteral(1), TermB >>, << BlankNode(5), TermC >> }

ConstructPlans == { PStaticBindings(rows) : rows \in Streams(ConstructRows) } \cup { ScanA }

TripleTemplates ==
    { TripleTemplate(TVariable(0), TConstant(TermA), TConstant(TermC)),
      TripleTemplate(TVariable(0), TConstant(TermB), TVariable(1)),
      TripleTemplate(TVariable(1), TVariable(0), TVariable(0)),
      TripleTemplate(TBlankNode(0), TConstant(TermA), TVariable(0)),
      TripleTemplate(TBlankNode(0), TConstant(TermB), TBlankNode(1)) }

ConstructScenarios ==
    { [ plan |-> p, template |-> ts, fails |-> fails ] :
        p \in ConstructPlans,
        ts \in UNION { [ 1 .. n -> TripleTemplates ] : n \in 1 .. 2 },
        fails \in BOOLEAN }

InitConstruct ==
    /\ \E sc \in ConstructScenarios :
         /\ plan = sc.plan
         /\ template = sc.template
         /\ store_fails = sc.fails
    /\ from = << >>
    /\ iter = NoIter
    /\ ev = InitEv
    /\ out = << >>
    /\ pc = "start"
    /\ buffered_results = << >>
    /\ bnodes = << >>
    /\ resolved = << >>
    /\ unstable = [ i \in 1 .. MaxSortRows |-> i ]

\* evaluate_construct_plan
EvaluateConstruct ==
    /\ pc = "start"
    /\ Started(eval_plan(plan, << >>, ev))
    /\ buffered_results' = << >>
    /\ bnodes' = << >>
    /\ pc' = "running"
    /\ UNCHANGED <<plan, from, store_fails, out, template, resolved, unstable>>

\* the effect of ConstructIterator::next having got to r; self.bnodes.clear()
\* ends every row it returns from
Constructed(r) ==
    /\ iter' = r.c.iter
    /\ ev' = r.c.ev
    /\ buffered_results' = r.c.buffered_results
    /\ resolved' = r.c.resolved
    /\ out' = IF r.item = NoItem THEN out ELSE Append(out, r.item)
    /\ pc' = IF r.looping THEN "looping" ELSE IF r.item = NoItem THEN "done" ELSE "running"

\* one call of ConstructIterator::next
ConstructNext ==
    /\ pc = "running"
    /\ Constructed(ConstructIterator_next(
         [ iter |-> iter, ev |-> ev, template |-> template,
           buffered_results |-> buffered_results, resolved |-> resolved ]))
    /\ UNCHANGED <<plan, from, store_fails, template, bnodes, unstable>>

\* one turn of `while *id >= tuple.len() { bnodes.push(BlankNode::default()) }`
PushBNode ==
    /\ pc = "looping"
    /\ Len(bnodes) < MaxBNodes
    /\ bnodes' = Append(bnodes, BlankNode(ev.fresh))
    /\ ev' = [ev EXCEPT !.fresh = @ + 1]
    /\ UNCHANGED <<plan, from, store_fails, iter, out, pc, template, buffered_results, resolved, unstable>>

NextConstruct == EvaluateConstruct \/ ConstructNext \/ PushBNode

SpecConstruct == InitConstruct /\ [][NextConstruct]_vars

(***************************************************************************)
(* One expression on one tuple: eval_expression(expression, tuple), as the  *)
(* closures of Filter, Extend and Sort call it.  `plan` holds the           *)
(* expression, `from` the tuple, and `out` the value once it has returned.  *)
(***************************************************************************)
Operands ==
    { None, BooleanLiteral(TRUE), BooleanLiteral(FALSE), TermA, TermB,
      SimpleLiteral(1), StringLiteral(1),
      IntegerLiteral(0 - 1), IntegerLiteral(0), IntegerLiteral(1),
      DecimalLiteral(0), DecimalLiteral(1),
      FloatLiteral(0 - 1), FloatLiteral(0), FloatLiteral(1),
      DoubleLiteral(0), DoubleLiteral(1) }

BinaryExpressions ==
    { EOr(EVariable(0), EVariable(1)), EAnd(EVariable(0), EVariable(1)),
      EEqual(EVariable(0), EVariable(1)), ESameTerm(EVariable(0), EVariable(1)),
      EDiv(EVariable(0), EVariable(1)) }

InitExpression ==
    /\ \E expression \in BinaryExpressions :
         plan = [ node |-> "Expression", expression |-> expression ]
    /\ \E a, b \in Operands : from = << a, b >>
    /\ store_fails = FALSE
    /\ iter = NoIter
    /\ ev = InitEv
    /\ out = << >>
    /\ pc = "start"
    /\ template = << >>
    /\ buffered_results = << >>
    /\ bnodes = << >>
    /\ resolved = << >>
    /\ unstable = [ i \in 1 .. MaxSortRows |-> i ]

\* the effect of eval_expression having returned r, or having panicked
Evaluated(r) ==
    /\ ev' = r.ev
    /\ out' = IF r.val = Panicked THEN out ELSE << r.val >>
    /\ pc' = IF r.val = Panicked THEN "panicked" ELSE "done"

\* self.eval_expression(expression, tuple)
EvaluateExpression ==
    /\ pc = "start"
    /\ Evaluated(eval_expression(plan.expression, from, ev))
    /\ UNCHANGED <<plan, from, store_fails, iter, template, buffered_results, bnodes,
                   resolved, unstable>>

NextExpression == EvaluateExpression

SpecExpression == InitExpression /\ [][NextExpression]_vars

(***************************************************************************)
(* ASK: evaluate_ask_plan builds the iterator of the plan on the empty     *)
(* tuple and answers from the first call of next().                        *)
(***************************************************************************)
\* QueryResult::Boolean, as the one field of an item
Boolean(b) == << <<"Boolean", IF b THEN 1 ELSE 0>> >>

\* the answer that mutates evaluate_ask_on_item: no row is false
MutAskNoRowIsFalse(item) == Ok(Boolean(IsOk(item)))

\* the match of evaluate_ask_plan on what next() returned
evaluate_ask_on_item(item) ==
    IF IsOk(item) THEN Ok(Boolean(TRUE))
    ELSE IF IsErr(item) THEN item
    ELSE Ok(Boolean(FALSE))

AskScenarios ==
    { sc \in UnionScenarios \cup FilterScenarios \cup DistinctScenarios \cup SliceScenarios :
        sc.from = << >> }

InitAsk ==
    /\ \E sc \in AskScenarios :
         /\ plan = sc.plan
         /\ store_fails = sc.fails
    /\ from = << >>
    /\ iter = NoIter
    /\ ev = InitEv
    /\ out = << >>
    /\ pc = "start"
    /\ template = << >>
    /\ buffered_results = << >>
    /\ bnodes = << >>
    /\ resolved = << >>
    /\ unstable = [ i \in 1 .. MaxSortRows |-> i ]

\* the effect of the first next() having returned r
Answered(r) ==
    /\ iter' = r.iter
    /\ ev' = r.ev
    /\ out' = IF r.item = Panic THEN out ELSE << evaluate_ask_on_item(r.item) >>
    /\ pc' = IF r.item = Panic THEN "panicked" ELSE "answered"

\* the first next() on the iterator c that eval_plan returned
FirstNext(c) == IterNext(c.iter, c.ev)

\* self.evaluate_ask_plan(plan)
EvaluateAsk ==
    /\ pc = "start"
    /\ Answered(FirstNext(eval_plan(plan, << >>, ev)))
    /\ UNCHANGED <<plan, from, store_fails, template, buffered_results, bnodes,
                   resolved, unstable>>

NextAsk == EvaluateAsk

SpecAsk == InitAsk /\ [][NextAsk]_vars

(***************************************************************************)
(* The comparison of Sort on three rows: cmp_according_to_expression on    *)
(* the pairs of three one-slot tuples.  `from` holds the three values,     *)
(* `plan` the expression, `out` the four orderings once they are computed. *)
(***************************************************************************)
CompareOperands == Operands \cup { BlankNode(1), BlankNode(2) }

InitCompare ==
    /\ plan = [ node |-> "Compare", expression |-> EVariable(0) ]
    /\ \E a, b, c \in CompareOperands : from = << a, b, c >>
    /\ store_fails = FALSE
    /\ iter = NoIter
    /\ ev = InitEv
    /\ out = << >>
    /\ pc = "start"
    /\ template = << >>
    /\ buffered_results = << >>
    /\ bnodes = << >>
    /\ resolved = << >>
    /\ unstable = [ i \in 1 .. MaxSortRows |-> i ]

\* cmp(a, b), cmp(b, c), cmp(a, c) and cmp(b, a) for the rows <<a>>, <<b>>, <<c>>
Compare ==
    /\ pc = "start"
    /\ out' = << cmp_according_to_expression(<< from[1] >>, << from[2] >>, plan.expression, ev),
                 cmp_according_to_expression(<< from[2] >>, << from[3] >>, plan.expression, ev),
                 cmp_according_to_expression(<< from[1] >>, << from[3] >>, plan.expression, ev),
                 cmp_according_to_expression(<< from[2] >>, << from[1] >>, plan.expression, ev) >>
    /\ pc' = "compared"
    /\ UNCHANGED <<plan, from, store_fails, iter, ev, template, buffered_results, bnodes,
                   resolved, unstable>>

NextCompare == Compare

SpecCompare == InitCompare /\ [][NextCompare]_vars

(***************************************************************************)
(* combine_tuples on two tuples, in both orders.  `from` holds the two     *)
(* tuples, `out` the two results.                                         *)
(***************************************************************************)
CombineTuples == UNION { [ 1 .. n -> { None, TermA, TermB } ] : n \in 0 .. MaxSlots }

InitCombine ==
    /\ plan = [ node |-> "Combine" ]
    /\ \E a, b \in CombineTuples : from = << a, b >>
    /\ store_fails = FALSE
    /\ iter = NoIter
    /\ ev = InitEv
    /\ out = << >>
    /\ pc = "start"
    /\ template = << >>
    /\ buffered_results = << >>
    /\ bnodes = << >>
    /\ resolved = << >>
    /\ unstable = [ i \in 1 .. MaxSortRows |-> i ]

\* combine_tuples(a, b) and combine_tuples(b, a)
Combine ==
    /\ pc = "start"
    /\ out' = << combine_tuples(from[1], from[2]), combine_tuples(from[2], from[1]) >>
    /\ pc' = "combined"
    /\ UNCHANGED <<plan, from, store_fails, iter, ev, template, buffered_results, bnodes,
                   resolved, unstable>>

NextCombine == Combine

SpecCombine == InitCombine /\ [][NextCombine]_vars

(***************************************************************************)
(* Properties.                                                             *)
(***************************************************************************)
\* every item a plan yields from a seed, with a fresh evaluator
Stream(p, seed) == Drain(eval_plan(p, seed, InitEv)).items

IsPrefix(a, b) == Len(a) <= Len(b) /\ SubSeq(b, 1, Len(a)) = a

\* out is what has been emitted so far of `expected`, and all of it at the end
Emits(expected) == IsPrefix(out, expected) /\ (pc = "done" => out = expected)

OkRows(items) == { items[i][2] : i \in { j \in DOMAIN items : IsOk(items[j]) } }

\* the outputs of the children for one input tuple, the children taken in the order cs
UnionForSeed(cs, s) == Flatten([ i \in 1 .. Len(cs) |-> Stream(cs[i], s) ])

\* the stream of a Union whose children are emitted in the order cs for every
\* input tuple; an error item of the entry plan stays where it is
UnionStream(entry, cs, seed) ==
    LET input == Stream(entry, seed)
    IN  Flatten([ i \in 1 .. Len(input) |->
                    IF IsErr(input[i]) THEN << input[i] >>
                    ELSE UnionForSeed(cs, input[i][2]) ])

\* C1 as stated: for every input tuple s of the entry plan a Union emits all of
\* c1(s), then all of c2(s), ..., then all of ck(s), and everything for one input
\* tuple before anything for the next.
C1_UnionChildrenInOrder ==
    (pc # "start" /\ plan.node = "Union")
      => Emits(UnionStream(plan.entry, plan.children, from))

\* C1 amended: for every input tuple s of the entry plan a Union emits all of
\* ck(s), then all of c(k-1)(s), ..., then all of c1(s) (the children last to
\* first, each child's rows in its own order), and everything for one input tuple
\* before anything for the next.
C1_UnionChildrenLastFirst ==
    (pc # "start" /\ plan.node = "Union")
      => Emits(UnionStream(plan.entry, Reverse(plan.children), from))

\* a Union of three children has finished and emitted rows of at least two children
\* whose outputs differ, for at least two input tuples
C1_Witness ==
    /\ pc = "done" /\ plan.node = "Union" /\ Len(plan.children) = 3
    /\ Cardinality(OkRows(Stream(plan.entry, from))) >= 2
    /\ \A s \in OkRows(Stream(plan.entry, from)) :
         /\ Stream(plan.children[1], s) # << >>
         /\ Stream(plan.children[3], s) # << >>
         /\ Stream(plan.children[1], s) # Stream(plan.children[3], s)

\* the rows a LeftJoin without problem variables emits for the left item x
LeftJoinForItem(right, x) ==
    IF IsErr(x) THEN << x >>
    ELSE IF Stream(right, x[2]) = << >> THEN << x >>
    ELSE Stream(right, x[2])

LeftJoinStream(left, right, seed) ==
    LET input == Stream(left, seed)
    IN  Flatten([ i \in 1 .. Len(input) |-> LeftJoinForItem(right, input[i]) ])

NoProblemVars == bind_variables_in_set(from, plan.possible_problem_vars) = << >>

\* C2: a LeftJoin without problem variables emits, for each left row l in turn,
\* the items of the right subplan seeded with l when there is at least one, and
\* l itself, exactly once, when there is none; it emits nothing else.
C2_LeftJoinKeepsLeft ==
    (pc # "start" /\ plan.node = "LeftJoin" /\ NoProblemVars)
      => Emits(LeftJoinStream(plan.left, plan.right, from))

\* a LeftJoin has finished over a left row the right subplan extends and a left
\* row for which the right subplan yields nothing
C2_Witness ==
    /\ pc = "done" /\ plan.node = "LeftJoin" /\ NoProblemVars
    /\ \E l1, l2 \in OkRows(Stream(plan.left, from)) :
         /\ Stream(plan.right, l1) = << >>
         /\ Stream(plan.right, l2) # << >>
         /\ Ok(l2) \notin Range(Stream(plan.right, l2))

\* the slots listed in possible_problem_vars that the seed binds
SeedProblemVars == { v \in Range(plan.possible_problem_vars) : has_tuple_value(v, from) }

\* C3: every successful row a LeftJoin emits binds each slot that is listed in
\* possible_problem_vars and bound in the seed to the value the seed gives it.
C3_ProblemVarsKeepSeedValue ==
    (pc # "start" /\ plan.node = "LeftJoin")
      => \A row \in OkRows(out) : \A v \in SeedProblemVars :
           get_tuple_value(v, row) = get_tuple_value(v, from)

\* the rows the inner LeftJoinIterator computes from the filtered seed
FilteredLeftJoinRows ==
    OkRows(Stream(PLeftJoin(plan.left, plan.right, << >>),
                  unbind_variables(from, bind_variables_in_set(from, plan.possible_problem_vars))))

\* a LeftJoin with a problem variable bound in the seed has finished; one row
\* computed from the filtered seed bound it to another value (and was dropped),
\* another left it unbound (and got the seed's value back)
C3_Witness ==
    /\ pc = "done" /\ plan.node = "LeftJoin" /\ out # << >>
    /\ \E v \in SeedProblemVars :
         /\ \E row \in FilteredLeftJoinRows :
              has_tuple_value(v, row) /\ get_tuple_value(v, row) # get_tuple_value(v, from)
         /\ \E row \in FilteredLeftJoinRows :
              /\ ~has_tuple_value(v, row)
              /\ put_value(v, get_tuple_value(v, from), row) \in OkRows(out)

\* the plans of BNodeScenarios whose two BIND expressions are both BNODE(?0)
IsBNodeTwice ==
    /\ plan.node = "Extend" /\ plan.expression = EBNode(<< EVariable(0) >>)
    /\ plan.child.node = "Extend" /\ plan.child.expression = EBNode(<< EVariable(0) >>)

\* C6: BNode(expr) evaluated twice for the same string lexical form in one row
\* yields the same blank node both times, and evaluated for the same lexical
\* form in another row of the same query yields a different blank node.
\* (slot 0 holds the string, slots 1 and 2 the two results of BNODE(?0))
C6_BNodeSameInRowFreshAcrossRows ==
    (pc = "done" /\ IsBNodeTwice)
      => \A i, j \in DOMAIN out :
           /\ out[i][2][2] = out[i][2][3]
           /\ (i # j /\ out[i][2][1][2] = out[j][2][1][2]) => out[i][2][2] # out[j][2][2]

Max(a, b) == IF a < b THEN b ELSE a

NoErrors(items) == \A i \in DOMAIN items : IsOk(items[i])

\* l and r are compatible: no slot is bound to different values by the two
Compatible(l, r) ==
    \A v \in 0 .. Max(Len(l), Len(r)) :
      (has_tuple_value(v, l) /\ has_tuple_value(v, r))
        => get_tuple_value(v, l) = get_tuple_value(v, r)

\* the merged tuple of two compatible tuples
Merged(l, r) ==
    [ i \in 1 .. Max(Len(l), Len(r)) |->
        IF has_tuple_value(i - 1, l) THEN get_tuple_value(i - 1, l)
        ELSE get_tuple_value(i - 1, r) ]

\* one item per pair (l, r) of a row of ls and a row of rs: the merged tuple when
\* the pair is compatible
CompatiblePairs(ls, rs) ==
    LET pairs == [ n \in 1 .. Len(ls) * Len(rs) |->
                     << ls[((n - 1) \div Len(rs)) + 1][2], rs[((n - 1) % Len(rs)) + 1][2] >> ]
        kept == SelectSeq(pairs, LAMBDA pr : Compatible(pr[1], pr[2]))
    IN  [ n \in 1 .. Len(kept) |-> Ok(Merged(kept[n][1], kept[n][2])) ]

\* the multiset of the items of a stream
BagOfSeq(items) ==
    [ x \in Range(items) |-> Cardinality({ i \in DOMAIN items : items[i] = x }) ]

JoinWithoutErrors ==
    /\ plan.node = "Join"
    /\ NoErrors(Stream(plan.left, from))
    /\ NoErrors(Stream(plan.right, from))

\* C7: for subplans a and b that produce no error items, Join(a,b) and Join(b,a)
\* emit the same multiset of rows: exactly one row, the merged tuple, for each
\* compatible pair of a left row and a right row, and nothing else.
C7_JoinCommutes ==
    (pc = "done" /\ JoinWithoutErrors)
      => /\ BagOfSeq(out)
              = BagOfSeq(CompatiblePairs(Stream(plan.left, from), Stream(plan.right, from)))
         /\ BagOfSeq(out) = BagOfSeq(Stream(PJoin(plan.right, plan.left), from))

\* a Join without error items has finished with several rows, in another order
\* than the swapped Join, and some pair of rows was incompatible
C7_Witness ==
    /\ pc = "done" /\ JoinWithoutErrors /\ Len(out) >= 2
    /\ out # Stream(PJoin(plan.right, plan.left), from)
    /\ \E l \in OkRows(Stream(plan.left, from)), r \in OkRows(Stream(plan.right, from)) :
         ~Compatible(l, r)

\* the four positions of the pattern of a QuadPatternJoin
Pattern == << plan.subject, plan.predicate, plan.object, plan.graph_name >>

PatternVars == { Pattern[i][2] : i \in { j \in 1 .. 4 : is_var(Pattern[j]) } }

\* row is the input row t extended by the quad q as C8 describes
ExtendedByQuad(row, t, q) ==
    /\ \A i \in 1 .. 4 : ~is_var(Pattern[i]) => q[i] = Pattern[i][2]
    /\ \A i \in 1 .. 4 :
         (is_var(Pattern[i]) /\ has_tuple_value(Pattern[i][2], t))
           => q[i] = get_tuple_value(Pattern[i][2], t)
    /\ \A i, j \in 1 .. 4 :
         (is_var(Pattern[i]) /\ Pattern[i] = Pattern[j]) => q[i] = q[j]
    /\ is_var(Pattern[4]) => q[4] # ENCODED_DEFAULT_GRAPH
    /\ \A i \in 1 .. 4 : is_var(Pattern[i]) => get_tuple_value(Pattern[i][2], row) = q[i]
    /\ \A v \in (0 .. Max(Len(row), Len(t))) \ PatternVars :
         get_tuple_value(v, row) = get_tuple_value(v, t)

\* C8: every row produced by QuadPatternJoin is an input row t extended by some
\* quad q of the dataset: q agrees with the Constant positions and with the
\* Variable positions bound in t, has the same term wherever one variable occurs
\* several times, is not in the default graph when the graph position is a
\* variable; the row binds each Variable position to q's term and leaves every
\* other slot of t unchanged.
C8_QuadPatternJoinRows ==
    (pc # "start" /\ plan.node = "QuadPatternJoin")
      => \A row \in OkRows(out) :
           \E t \in OkRows(Stream(plan.child, from)), q \in Range(StoreQuads) :
             ExtendedByQuad(row, t, q)

\* a QuadPatternJoin with a variable repeated in the pattern, a variable in the
\* graph position and a variable bound by the input row has emitted a row
C8_Witness ==
    /\ pc = "done" /\ plan.node = "QuadPatternJoin" /\ OkRows(out) # {}
    /\ is_var(plan.graph_name)
    /\ \E i, j \in 1 .. 4 : i # j /\ is_var(Pattern[i]) /\ Pattern[i] = Pattern[j]
    /\ \E t \in OkRows(Stream(plan.child, from)), v \in PatternVars : has_tuple_value(v, t)
    /\ \E q \in Range(StoreQuads) : q[4] # ENCODED_DEFAULT_GRAPH /\ q[1] # q[2]

IsPure(expression) == expression.e # "BNode"

\* the child's item is one a Filter on e lets through
FilterKeeps(e, item) ==
    \/ IsErr(item)
    \/ /\ eval_expression(e, item[2], InitEv).val # None
       /\ to_bool(eval_expression(e, item[2], InitEv).val) = BooleanLiteral(TRUE)

\* C9: the rows a Filter emits are the rows of the child, in the child's order,
\* on which e evaluates to a term whose effective boolean value is true; rows on
\* which e is undefined, has no effective boolean value or is false are dropped
\* and no error item is produced for them (the child's error items pass through).
C9_FilterKeepsTrueRows ==
    (pc # "start" /\ plan.node = "Filter")
      => Emits(SelectSeq(Stream(plan.child, from),
                         LAMBDA item : FilterKeeps(plan.expression, item)))

\* a Filter has finished: it kept a row, dropped a row on which e is undefined or
\* has no effective boolean value, and produced no error item
C9_Witness ==
    /\ pc = "done" /\ plan.node = "Filter" /\ OkRows(out) # {}
    /\ NoErrors(out)
    /\ \E t \in OkRows(Stream(plan.child, from)) :
         \/ eval_expression(plan.expression, t, InitEv).val = None
         \/ to_bool(eval_expression(plan.expression, t, InitEv).val) = None

\* the row Extend emits for the child's row t and the value v: slot k holds v and
\* every other slot is the one of t
ExtendRow(k, v, t) ==
    [ i \in 1 .. Max(Len(t), k + 1) |-> IF i = k + 1 THEN v ELSE get_tuple_value(i - 1, t) ]

ExtendForValue(k, v, t) == IF v = None THEN << >> ELSE << Ok(ExtendRow(k, v, t)) >>

\* the stream of Extend{c, k, e}; with hide, e is evaluated on the child's row
\* with slot k unbound, without it on the child's row as it is
ExtendStream(c, k, e, seed, hide) ==
    LET input == Stream(c, seed)
    IN  Flatten([ i \in 1 .. Len(input) |->
                    IF IsErr(input[i]) THEN << input[i] >>
                    ELSE ExtendForValue(k,
                           eval_expression(e,
                             IF hide THEN unbind_variables(input[i][2], << k >>)
                             ELSE input[i][2], InitEv).val,
                           input[i][2]) ])

\* C10 as stated: for every row t emitted by Extend{c, k, e}, t[k] is the value
\* of e evaluated on the child's row with slot k unbound, every other slot of t
\* is the child's row, and child rows on which e is undefined are skipped.
C10_ExtendHidesSlot ==
    (pc # "start" /\ plan.node = "Extend" /\ IsPure(plan.expression))
      => Emits(ExtendStream(plan.child, plan.position, plan.expression, from, TRUE))

\* C10 amended: for every row t emitted by Extend{c, k, e}, t[k] is the value of
\* e evaluated on the child's row as it is (a binding of slot k in the child's
\* row is visible to e and then overwritten), every other slot of t is the
\* child's row, and child rows on which e is undefined are skipped (no row and
\* no error item is emitted for them).
C10_ExtendSeesChildRow ==
    (pc # "start" /\ plan.node = "Extend" /\ IsPure(plan.expression))
      => Emits(ExtendStream(plan.child, plan.position, plan.expression, from, FALSE))

\* an Extend has finished over a child row that binds slot k and on which e gives
\* another value than with slot k unbound, and over a child row on which e is
\* undefined
C10_Witness ==
    /\ pc = "done" /\ plan.node = "Extend" /\ IsPure(plan.expression) /\ out # << >>
    /\ \E t \in OkRows(Stream(plan.child, from)) :
         /\ has_tuple_value(plan.position, t)
         /\ eval_expression(plan.expression, t, InitEv).val # None
         /\ eval_expression(plan.expression, t, InitEv).val
              # eval_expression(plan.expression,
                                unbind_variables(t, << plan.position >>), InitEv).val
    /\ \E t \in OkRows(Stream(plan.child, from)) :
         eval_expression(plan.expression, t, InitEv).val = None

\* the triples CONSTRUCT owes for the row: one for every template whose subject,
\* predicate and object all resolve to a bound value
TriplesOfRow(tuple) ==
    LET bound == SelectSeq(template, LAMBDA t :
                   /\ get_triple_template_value(t.subject, tuple) # None
                   /\ get_triple_template_value(t.predicate, tuple) # None
                   /\ get_triple_template_value(t.object, tuple) # None)
    IN  [ i \in 1 .. Len(bound) |->
            decode_triple(get_triple_template_value(bound[i].subject, tuple),
                          get_triple_template_value(bound[i].predicate, tuple),
                          get_triple_template_value(bound[i].object, tuple)) ]

ConstructStream ==
    LET input == Stream(plan, << >>)
    IN  Flatten([ i \in 1 .. Len(input) |->
                    IF IsErr(input[i]) THEN << input[i] >> ELSE TriplesOfRow(input[i][2]) ])

\* no position of the template is a BlankNode
PlainTemplate ==
    \A i \in DOMAIN template :
      \A sel \in { template[i].subject, template[i].predicate, template[i].object } :
        sel[1] # "BlankNode"

\* C4: for each solution row CONSTRUCT emits one triple for every template whose
\* subject, predicate and object all resolve to a bound value and omits only the
\* templates with an unbound position: an unbound position in one template does
\* not suppress the triples of the other templates of the same row.
C4_ConstructSkipsOnlyUnboundTemplate ==
    (pc = "done" /\ PlainTemplate) => BagOfSeq(out) = BagOfSeq(ConstructStream)

\* the calls of get_triple_template_value for a BlankNode position while row r
\* was processed
BlankNodeCalls(r) ==
    { resolved[r].calls[n] :
        n \in { m \in DOMAIN resolved[r].calls : resolved[r].calls[m][1][1] = "BlankNode" } }

\* C5: a template position BlankNode(i) resolves to a blank node generated fresh
\* for the current row: within one row the same index gets the same blank node
\* and different indexes get different ones, no blank node is reused for another
\* row, and the value is never taken from the row's variable bindings.
C5_TemplateBlankNodeFreshPerRow ==
    \A r \in DOMAIN resolved : \A c \in BlankNodeCalls(r) :
      /\ is_blank_node(c[2])
      /\ c[2] \notin Range(resolved[r].tuple)
      /\ \A d \in BlankNodeCalls(r) : (c[1] = d[1]) <=> (c[2] = d[2])
      /\ \A r2 \in DOMAIN resolved \ {r} : \A d \in BlankNodeCalls(r2) : c[2] # d[2]

\* the stream C11 describes: slot i of every row is the child's value at slot
\* mapping[i], unbound when that lies past the end of the child's row
ProjectStream(c, mapping, seed) ==
    LET input == Stream(c, seed)
    IN  [ i \in 1 .. Len(input) |->
            IF IsErr(input[i]) THEN input[i]
            ELSE Ok([ k \in 1 .. Len(mapping) |-> get_tuple_value(mapping[k], input[i][2]) ]) ]

\* C11: Project emits exactly one item per child item, in the child's order; the
\* output tuple has length |mapping| and its slot i is the child's value at slot
\* mapping[i], unbound when mapping[i] lies past the end of the child's row: the
\* projection of a short row does not fail.
C11_ProjectOfShortRowDoesNotFail ==
    (pc # "start" /\ plan.node = "Project")
      => /\ pc # "panicked"
         /\ Emits(ProjectStream(plan.child, plan.mapping, from))

\* the items of a stream that are error items or the first occurrence of a tuple
FirstOccurrences(items) ==
    LET first == SelectSeq([ i \in 1 .. Len(items) |-> i ], LAMBDA i :
                   IsErr(items[i]) \/ \A j \in 1 .. i - 1 : items[j] # items[i])
    IN  [ n \in 1 .. Len(first) |-> items[first[n]] ]

\* C12: the successful rows HashDeduplicate(c) emits are a subsequence of c's
\* successful rows holding exactly the first occurrence of each distinct encoded
\* tuple: no two emitted rows are equal and every distinct child tuple is emitted
\* exactly once (the child's error items stay where they are).
C12_DeduplicateKeepsFirstOccurrences ==
    (pc # "start" /\ plan.node = "HashDeduplicate")
      => Emits(FirstOccurrences(Stream(plan.child, from)))

\* a HashDeduplicate has finished over a child in which a tuple comes back after
\* another tuple
C12_Witness ==
    /\ pc = "done" /\ plan.node = "HashDeduplicate"
    /\ \E i, j, k \in DOMAIN Stream(plan.child, from) :
         /\ i < j /\ j < k
         /\ Stream(plan.child, from)[i] = Stream(plan.child, from)[k]
         /\ Stream(plan.child, from)[i] # Stream(plan.child, from)[j]
    /\ Len(out) < Len(Stream(plan.child, from))

Min(a, b) == IF a < b THEN a ELSE b

\* the items at positions [n, n + m) of a stream, positions counted from 0
Slice(items, n, m) ==
    IF n >= Len(items) \/ m = 0 THEN << >>
    ELSE SubSeq(items, n + 1, Min(n + m, Len(items)))

IsSlice == plan.node = "Limit" /\ plan.child.node = "Skip"

\* C14: Limit{Skip{child, n}, m} emits exactly the items at positions [n, n+m)
\* of the child's stream, unchanged and in order (fewer when the stream is shorter).
C14_LimitOfSkipIsSlice ==
    (pc # "start" /\ IsSlice)
      => Emits(Slice(Stream(plan.child.child, from), plan.child.count, plan.count))

\* a Limit over a Skip has finished over a stream longer than n + m, with items
\* dropped at both ends
C14_Witness ==
    /\ pc = "done" /\ IsSlice /\ plan.child.count >= 1 /\ plan.count >= 1
    /\ Len(Stream(plan.child.child, from)) > plan.child.count + plan.count
    /\ Len(out) = plan.count


IsOp(op) == plan.node = "Expression" /\ plan.expression.e = op

\* the three-valued reading of an operand: "error" when it is undefined or has
\* no effective boolean value
Truth(v) ==
    IF v = None \/ to_bool(v) = None THEN "error"
    ELSE IF to_bool(v) = BooleanLiteral(TRUE) THEN "true" ELSE "false"

\* C15: Or(a, b) is true when a is true, the value of b when a is false, true
\* when a errors (is undefined or has no effective boolean value) and b is
\* true, and an error otherwise
C15_OrIsThreeValued ==
    (IsOp("Or") /\ pc # "start") =>
        /\ pc = "done"
        /\ out[1] = IF Truth(from[1]) = "true" THEN BooleanLiteral(TRUE)
                    ELSE IF Truth(from[1]) = "false" THEN from[2]
                    ELSE IF Truth(from[2]) = "true" THEN BooleanLiteral(TRUE)
                    ELSE None

\* C16: And(a, b) is false whenever a is false or b is false, whatever the
\* other operand is, undefined included
C16_AndFalseWins ==
    (IsOp("And") /\ pc # "start" /\ "false" \in { Truth(from[1]), Truth(from[2]) }) =>
        /\ pc = "done"
        /\ out[1] = BooleanLiteral(FALSE)


\* C17 as stated: Equal(a, b) on two defined terms is true iff they are
\* byte-identical or their value-comparison is Equal, and is an error, not
\* false, when they are neither byte-identical nor comparable by value
C17_EqualErrsOnIncomparable ==
    (IsOp("Equal") /\ pc # "start" /\ from[1] # None /\ from[2] # None) =>
        /\ pc = "done"
        /\ out[1] = IF from[1] = from[2] \/ partial_cmp_literals(from[1], from[2]) = Equal
                    THEN BooleanLiteral(TRUE)
                    ELSE IF partial_cmp_literals(from[1], from[2]) = "None" THEN None
                    ELSE BooleanLiteral(FALSE)

\* C17 amended: Equal(a, b) on two defined terms is true iff they are
\* byte-identical or their value-comparison is Equal, and false otherwise,
\* terms that are not comparable by value included; it is an error only when
\* an operand is undefined
C17_EqualIsBooleanOnDefinedTerms ==
    (IsOp("Equal") /\ pc # "start") =>
        /\ pc = "done"
        /\ out[1] = IF from[1] = None \/ from[2] = None THEN None
                    ELSE BooleanLiteral(\/ from[1] = from[2]
                                        \/ partial_cmp_literals(from[1], from[2]) = Equal)

\* Equal has returned false on a named node and a literal
C17_Witness ==
    /\ IsOp("Equal") /\ pc = "done"
    /\ from = << TermA, SimpleLiteral(1) >>
    /\ out = << BooleanLiteral(FALSE) >>

\* C18 as stated: SameTerm(a, b) never errors: it returns a boolean, true iff
\* both operands evaluate to byte-identical terms
C18_SameTermNeverErrs ==
    (IsOp("SameTerm") /\ pc # "start") =>
        /\ pc = "done"
        /\ out[1] = BooleanLiteral(from[1] # None /\ from[1] = from[2])

\* C18 amended: SameTerm(a, b) returns a boolean whenever both operands are
\* defined, true iff they are byte-identical terms (terms that are equal by
\* value only are not the same term); it is an error when an operand is
\* undefined
C18_SameTermIsBooleanOnDefinedTerms ==
    (IsOp("SameTerm") /\ pc # "start") =>
        /\ pc = "done"
        /\ out[1] = IF from[1] = None \/ from[2] = None THEN None
                    ELSE BooleanLiteral(from[1] = from[2])

\* SameTerm has returned false on two terms that are equal by value
C18_Witness ==
    /\ IsOp("SameTerm") /\ pc = "done"
    /\ from = << IntegerLiteral(1), DecimalLiteral(1) >>
    /\ out = << BooleanLiteral(FALSE) >>


\* the family parse_numeric_operands promotes the two operands to
Family == parse_numeric_operands(from[1], from[2]).kind

\* C19: Div with a divisor equal to zero yields an undefined result, the
\* evaluation going on, when the operands are promoted to the integer or the
\* decimal family, and an IEEE infinity or NaN when they are promoted to float
\* or double
C19_DivByZero ==
    (IsOp("Div") /\ pc # "start" /\ from[1] # None /\ from[2] # None
       /\ Family # "None" /\ from[2][2] = 0) =>
        /\ pc = "done"
        /\ Family \in { "Integer", "Decimal" } => out[1] = None
        /\ Family = "Float" => out[1] \in { FloatLiteral(x) : x \in { INFINITY, NEG_INFINITY, NAN } }
        /\ Family = "Double" => out[1] \in { DoubleLiteral(x) : x \in { INFINITY, NEG_INFINITY, NAN } }


\* C20: ASK evaluates the plan with an empty seed and answers from the head of
\* the stream: true if the first item is a row, false if the stream ends
\* without any item, the error itself if the first item is an error; it never
\* answers false when the stream contains a row
C20_AskAnswersFromHead ==
    pc = "answered" =>
        LET stream == Stream(plan, << >>)
        IN  /\ out = << IF stream = << >> THEN Ok(Boolean(FALSE))
                        ELSE IF IsOk(stream[1]) THEN Ok(Boolean(TRUE))
                        ELSE stream[1] >>
            /\ (\E i \in DOMAIN stream : IsOk(stream[i])) => out[1] # Ok(Boolean(FALSE))

\* ASK has answered with the error that is at the head of a stream that holds
\* a row further on
C20_Witness ==
    /\ pc = "answered"
    /\ IsErr(out[1])
    /\ \E i \in DOMAIN Stream(plan, << >>) : IsOk(Stream(plan, << >>)[i])


\* the number of error items among the items
ErrorCount(items) == Len(SelectSeq(items, IsErr))

\* C24: in Join, every error item of the left subplan is emitted exactly once
\* and before any joined row, whatever the right subplan produces: the output
\* starts with as many error items as the left subplan yields, and holds no
\* other error items than these and those of the right subplan
C24_JoinEmitsLeftErrorsFirst ==
    (pc # "start" /\ plan.node = "Join") =>
        LET left_errors == ErrorCount(Stream(plan.left, from))
        IN  /\ \A i \in 1 .. Min(Len(out), left_errors) : IsErr(out[i])
            /\ pc = "done" =>
                  ErrorCount(out) = left_errors + ErrorCount(Stream(plan.right, from))

\* a Join whose left subplan yields two errors has finished with joined rows
C24_Witness ==
    /\ pc = "done" /\ plan.node = "Join"
    /\ ErrorCount(Stream(plan.left, from)) = 2
    /\ \E i \in DOMAIN out : IsOk(out[i])


\* the plan node with the one row t as its child
OnRow(node, t) == [node EXCEPT !.child = PStaticBindings(<< t >>)]

\* what a streaming operator makes of one item of its child: an error item
\* stays, a row becomes the items the operator yields on that row alone
OnItem(node, item) ==
    IF IsErr(item) THEN << item >>
    ELSE SelectSeq(Stream(OnRow(node, item[2]), << >>), LAMBDA x : x # Panic)

\* the child's stream with every item replaced by what the operator makes of it
ItemByItem(node, items) == Flatten([ i \in DOMAIN items |-> OnItem(node, items[i]) ])

IsStreaming ==
    \/ plan.node \in { "Filter", "Project", "QuadPatternJoin" }
    \/ plan.node = "Extend" /\ IsPure(plan.expression)

\* C25: in Filter, Extend, HashDeduplicate, Project and QuadPatternJoin every
\* error item of the child appears exactly once in the output, at its place
\* among the rows that survive, and an expression that is undefined on a row
\* creates no error item
C25_ErrorsStayInPlace ==
    /\ (pc = "done" /\ IsStreaming)
         => out = ItemByItem(plan, Stream(plan.child, from))
    /\ (pc = "done" /\ plan.node = "HashDeduplicate")
         => out = FirstOccurrences(Stream(plan.child, from))
    /\ (pc \in { "done", "panicked" } /\ plan.node \in { "Filter", "Extend", "Project" })
         => ErrorCount(out) = ErrorCount(Stream(plan.child, from))

\* C25 for the evaluations that come to their end: the same without the
\* evaluations a panic of Project has cut short
C25_ErrorsStayInPlaceUnlessPanic ==
    pc # "panicked" => C25_ErrorsStayInPlace


\* the rank of a result in the order of Sort: unbound, blank node, named
\* node, literal
RankOf(v) ==
    IF v = None THEN 0 ELSE IF is_blank_node(v) THEN 1 ELSE IF is_named_node(v) THEN 2 ELSE 3

\* C26: cmp_according_to_expression is a total preorder on evaluated results:
\* cmp(a, b) is the reverse of cmp(b, a); a <= b and b <= c imply a <= c, and
\* a equal to b and b equal to c imply a equal to c; unbound ranks below
\* blank nodes below named nodes below literals; and two literals that are
\* comparable by value compare as their values do
C26_SortComparisonIsTotalPreorder ==
    pc = "compared" =>
        /\ out[1] = reverse(out[4])
        /\ (out[1] # Greater /\ out[2] # Greater) => out[3] # Greater
        /\ (out[1] = Equal /\ out[2] = Equal) => out[3] = Equal
        /\ RankOf(from[1]) < RankOf(from[2]) => out[1] = Less
        /\ (is_literal(from[1]) /\ is_literal(from[2])
              /\ partial_cmp_literals(from[1], from[2]) # "None")
             => out[1] = partial_cmp_literals(from[1], from[2])


\* some slot is bound in both tuples, to unequal values
Conflict(a, b) ==
    \E k \in 0 .. Min(Len(a), Len(b)) - 1 :
        /\ has_tuple_value(k, a) /\ has_tuple_value(k, b)
        /\ get_tuple_value(k, a) # get_tuple_value(k, b)

\* C27: combine_tuples(a, b) is none iff some slot is bound in both a and b to
\* unequal values; otherwise it is a tuple of length max(|a|, |b|) whose every
\* slot holds the value bound in a or in b and is unbound when bound in
\* neither; and combine_tuples(a, b) = combine_tuples(b, a)
C27_CombineTuplesIsUnion ==
    pc = "combined" =>
        /\ out[1] = NoTuple <=> Conflict(from[1], from[2])
        /\ out[1] # NoTuple =>
              /\ Len(out[1]) = Max(Len(from[1]), Len(from[2]))
              /\ \A k \in 0 .. Len(out[1]) - 1 :
                    get_tuple_value(k, out[1])
                      = IF has_tuple_value(k, from[1]) THEN get_tuple_value(k, from[1])
                        ELSE get_tuple_value(k, from[2])
        /\ out[1] = out[2]

\* a shorter tuple has been combined with a longer one that binds another slot
C27_Witness ==
    /\ pc = "combined"
    /\ from = << << TermA >>, << None, TermB >> >>
    /\ out = << << TermA, TermB >>, << TermA, TermB >> >>


\* C28: every call of next() on the CONSTRUCT iterator terminates, also on a
\* row no longer than the index of a BlankNode position of the template, and
\* the iterator reports the end of the stream once the rows are exhausted
\* (a call that does not terminate is one that is inside the loop of
\* get_triple_template_value, whose condition no turn of the loop changes)
C28_ConstructNextTerminates == pc # "looping"

\* a call that is inside the loop stays inside it
C28_LoopHasNoExit == [][pc = "looping" => pc' = "looping"]_vars

\* the slots listed in possible_problem_vars removed from the seed, as
\* evaluate_plan does before it builds the inner LeftJoinIterator
FilteredSeed ==
    unbind_variables(from, bind_variables_in_set(from, plan.possible_problem_vars))

\* row gives every slot that l binds the value l gives it
Extends(row, l) ==
    \A k \in 0 .. Len(l) - 1 :
        has_tuple_value(k, l) => get_tuple_value(k, row) = get_tuple_value(k, l)

\* l agrees with the seed on every problem variable that both bind
AgreesWithSeed(l) ==
    \A v \in SeedProblemVars :
        has_tuple_value(v, l) => get_tuple_value(v, l) = get_tuple_value(v, from)

\* C29: a LeftJoin with problem variables bound in the seed never loses a left
\* row: for every row the left subplan yields that does not itself contradict
\* the seed, at least one emitted row extends it, also when every extension by
\* the right subplan conflicts with the seed on a problem variable.
C29_LeftJoinNeverLosesLeftRow ==
    (pc = "done" /\ plan.node = "LeftJoin" /\ SeedProblemVars # {})
      => \A l \in OkRows(Stream(plan.left, FilteredSeed)) :
           AgreesWithSeed(l) => \E row \in OkRows(out) : Extends(row, l)

\* the bindings a row represents: the row without its trailing unbound slots
RECURSIVE BindingsOf(_)
BindingsOf(row) ==
    IF row = << >> THEN << >>
    ELSE IF row[Len(row)] = None THEN BindingsOf(SubSeq(row, 1, Len(row) - 1))
    ELSE row

\* C30: HashDeduplicate never emits two rows that represent the same bindings;
\* rows that differ only in trailing unbound slots are duplicates of each other.
C30_DistinctByBindings ==
    (pc # "start" /\ plan.node = "HashDeduplicate")
      => \A i, j \in 1 .. Len(out) :
           (i < j /\ IsOk(out[i]) /\ IsOk(out[j]))
             => BindingsOf(out[i][2]) # BindingsOf(out[j][2])

(***************************************************************************)
(* DESCRIBE: evaluate_describe_plan and DescribeIterator.  The iterator    *)
(* holds the solutions iterator and quads_iters, a stack of the            *)
(* enumerations quads_for_pattern returned (the last one is the top).      *)
(***************************************************************************)
DescribeIterator(child, quads_iters) ==
    [ it |-> "Describe", iter |-> child, quads_iters |-> quads_iters ]

MutDescribeFirstSubjectOnly(tuple) ==
    IF SelectSeq(tuple, LAMBDA t : t # None) = << >> THEN << >>
    ELSE << Head(SelectSeq(tuple, LAMBDA t : t # None)) >>

\* for subject in tuple { if let Some(subject) = subject { ... } }
bound_subjects(tuple) == SelectSeq(tuple, LAMBDA t : t # None)

\* quads_iters after the for loop: one enumeration pushed for each subject
push_quads_iters(quads_iters, subjects) ==
    quads_iters \o [ i \in 1 .. Len(subjects) |->
                       quads_for_pattern(subjects[i], None, None, None) ]

\* quad.and_then(|quad| self.dataset.encoder().decode_triple(&quad))
decode_quad(item) ==
    IF IsErr(item) THEN item ELSE decode_triple(item[2][1], item[2][2], item[2][3])

RECURSIVE Describe_next(_, _)
RECURSIVE Describe_pop(_, _, _)

\* let tuple = match self.iter.next()? { Ok(tuple) => tuple, Err(error) => return ... }
\* followed by the for loop and self.next()
Describe_on_item(d, r) ==
    IF r.item = NoItem \/ r.item = Panic \/ IsErr(r.item)
    THEN N(r.item, DescribeIterator(r.iter, d.quads_iters), r.ev)
    ELSE Describe_next(
           DescribeIterator(r.iter,
                            push_quads_iters(d.quads_iters, bound_subjects(r.item[2]))),
           r.ev)

\* one turn of `while let Some(mut quads_iter) = self.quads_iters.pop()`, the
\* stack being n high: an exhausted enumeration is not pushed back
Describe_pop(d, s, n) ==
    IF d.quads_iters[n] = << >>
    THEN Describe_next(DescribeIterator(d.iter, SubSeq(d.quads_iters, 1, n - 1)), s)
    ELSE N(decode_quad(Head(d.quads_iters[n])),
           DescribeIterator(d.iter, [ d.quads_iters EXCEPT ![n] = Tail(@) ]),
           s)

\* DescribeIterator::next
Describe_next(d, s) ==
    IF d.quads_iters = << >> THEN Describe_on_item(d, IterNext(d.iter, s))
    ELSE Describe_pop(d, s, Len(d.quads_iters))

DescribeRows ==
    { << TermA >>, << TermB, TermA >>, << None, TermB >>, << TermA, TermA >>,
      << TermC >>, << IntegerLiteral(1), None >> }

DescribeScenarios ==
    { Scenario(child, << >>, fails) :
        child \in { PStaticBindings(rows) : rows \in Streams(DescribeRows) }
                    \cup { PInit, ScanA, ScanTwice },
        fails \in BOOLEAN }

InitDescribe ==
    /\ \E sc \in DescribeScenarios :
         /\ plan = sc.plan
         /\ store_fails = sc.fails
    /\ from = << >>
    /\ iter = NoIter
    /\ ev = InitEv
    /\ out = << >>
    /\ pc = "start"
    /\ template = << >>
    /\ buffered_results = << >>
    /\ bnodes = << >>
    /\ resolved = << >>
    /\ unstable = [ i \in 1 .. MaxSortRows |-> i ]

\* the DescribeIterator built over the iterator c that eval_plan returned
DescribeStarted(c) ==
    /\ iter' = DescribeIterator(c.iter, << >>)
    /\ ev' = c.ev

\* self.evaluate_describe_plan(plan)
EvaluateDescribe ==
    /\ pc = "start"
    /\ DescribeStarted(eval_plan(plan, << >>, ev))
    /\ pc' = "running"
    /\ UNCHANGED <<plan, from, store_fails, out, template, buffered_results, bnodes,
                   resolved, unstable>>

\* one next() on the DescribeIterator
DescribeNext ==
    /\ pc = "running"
    /\ Pulled(Describe_next(iter, ev))
    /\ UNCHANGED <<plan, from, store_fails, template, buffered_results, bnodes,
                   resolved, unstable>>

NextDescribe == EvaluateDescribe \/ DescribeNext

SpecDescribe == InitDescribe /\ [][NextDescribe]_vars

\* the successful items of a stream, in order
OkItems(items) == SelectSeq(items, IsOk)

\* the (slot, quad) pairs of a row: the slot is bound and its term is the
\* subject of the quad of the store
SlotQuads(row) ==
    { sq \in (1 .. Len(row)) \X (1 .. Len(StoreQuads)) :
        row[sq[1]] # None /\ StoreQuads[sq[2]][1] = row[sq[1]] }

TripleOfQuad(q) == << q[1], q[2], q[3] >>

\* how often the triple x is due for the row: once per (slot, quad) pair
Due(row, x) ==
    Cardinality({ sq \in SlotQuads(row) : TripleOfQuad(StoreQuads[sq[2]]) = x })

\* the number of triples due for the first n rows
RECURSIVE DueBefore(_, _)
DueBefore(rows, n) ==
    IF n = 0 THEN 0 ELSE DueBefore(rows, n - 1) + Cardinality(SlotQuads(rows[n][2]))

\* how often x occurs in items at the positions a + 1 .. b
CountIn(items, a, b, x) ==
    Cardinality({ i \in (a + 1) .. Min(b, Len(items)) : items[i] = Ok(x) })

AllTriples == { TripleOfQuad(StoreQuads[q]) : q \in DOMAIN StoreQuads }

\* the triples emitted are, row after row, those due for the row
DescribesRows(triples, rows, complete) ==
    /\ Len(triples) <= DueBefore(rows, Len(rows))
    /\ complete => Len(triples) = DueBefore(rows, Len(rows))
    /\ \A n \in 1 .. Len(rows) : \A x \in AllTriples :
         /\ CountIn(triples, DueBefore(rows, n - 1), DueBefore(rows, n), x)
               <= Due(rows[n][2], x)
         /\ (complete \/ Len(triples) >= DueBefore(rows, n))
               => CountIn(triples, DueBefore(rows, n - 1), DueBefore(rows, n), x)
                    = Due(rows[n][2], x)
    /\ \A i \in DOMAIN triples : triples[i][2] \in AllTriples

\* C21: DESCRIBE emits, for each solution row in turn and each bound term of
\* the row, the triple of every quad of the store whose subject is that term,
\* once per (row, slot, quad) and without deduplication, and no other triple;
\* the triples of one row all come before those of the next row.
C21_DescribeEmitsQuadsOfBoundTerms ==
    pc # "start" => DescribesRows(OkItems(out), OkItems(Stream(plan, << >>)), pc = "done")

\* DESCRIBE has finished over rows that hold the same subject in two slots or
\* in two rows, and has emitted one triple more than once
C21_Witness ==
    /\ pc = "done"
    /\ \E i, j \in DOMAIN out : i < j /\ IsOk(out[i]) /\ out[i] = out[j]
    /\ \E row \in OkRows(Stream(plan, << >>)) : Cardinality(SlotQuads(row)) > 4
    /\ Len(OkItems(Stream(plan, << >>))) > 1

(***************************************************************************)
(* The HTTP server (server/src/main.rs).  A request is its path, method,   *)
(* Content-Type (the essence of the media type, or none), the parameters   *)
(* of the query string of its URL, and its body; it carries no Accept      *)
(* header, so content_negotiation picks the first supported format.  The   *)
(* value of a parameter and a text say what the parser called on them      *)
(* answers: "valid" parses, "invalid" does not, and "using" is an update   *)
(* with a USING clause (no query and no file).  The response records the   *)
(* status, whether the body was read, and the operation run on the store.  *)
(***************************************************************************)
MaxParams == 2

Request(path, method, content_type, query, body) ==
    [ path |-> path, method |-> method, content_type |-> content_type,
      url_query |-> query, body |-> body ]

Response(status, body_read, store) ==
    [ status |-> status, body_read |-> body_read, store |-> store ]

NoContentType == "none"
NoQuery == "none"

\* a body: a text, or the urlencoded pairs of a form
Text(v) == [ kind |-> "text", text |-> v, params |-> << >> ]
Form(ps) == [ kind |-> "form", text |-> "invalid", params |-> ps ]

\* request.take_body().read_to_string(&mut buffer): the bytes of a form are no
\* query, update or file
read_to_string(body) == body.text

\* request.take_body().read_to_end(&mut buffer) handed to form_urlencoded::parse:
\* the bytes of a text are one pair whose key is the text
read_to_end(body) ==
    IF body.kind = "form" THEN body.params ELSE << << "other", "" >> >>

GraphFormat_from_media_type(essence) ==
    essence \in { "text/turtle", "application/n-triples", "application/rdf+xml" }

DatasetFormat_from_media_type(essence) ==
    essence \in { "application/n-quads", "application/trig" }

\* NamedNode::new succeeds on every graph name
graph_names_parse(uris) == \A i \in DOMAIN uris : uris[i] = "valid"

evaluate_sparql_query(query, graph_uris, read) ==
    IF query # "valid" THEN Response("BadRequest", read, "untouched")
    ELSE IF ~graph_names_parse(graph_uris) THEN Response("BadRequest", read, "untouched")
    ELSE IF store_fails THEN Response("InternalServerError", read, "query")
    ELSE Response("Ok", read, "query")

\* the loop over form_urlencoded::parse(&encoded) and the call that follows it;
\* graph_uris holds default_graph_uris and named_graph_uris pushed so far
RECURSIVE configure_and_evaluate_sparql_query(_, _, _, _)
configure_and_evaluate_sparql_query(encoded, query, graph_uris, read) ==
    IF encoded = << >>
    THEN IF query # NoQuery THEN evaluate_sparql_query(query, graph_uris, read)
         ELSE Response("BadRequest", read, "untouched")
    ELSE CASE Head(encoded)[1] = "query" ->
                IF query # NoQuery THEN Response("BadRequest", read, "untouched")
                ELSE configure_and_evaluate_sparql_query(
                       Tail(encoded), Head(encoded)[2], graph_uris, read)
           [] Head(encoded)[1] \in { "default-graph-uri", "named-graph-uri" } ->
                configure_and_evaluate_sparql_query(
                  Tail(encoded), query, Append(graph_uris, Head(encoded)[2]), read)
           [] OTHER -> Response("BadRequest", read, "untouched")

evaluate_sparql_update(update, graph_uris, read) ==
    IF update \notin { "valid", "using" } THEN Response("BadRequest", read, "untouched")
    ELSE IF ~graph_names_parse(graph_uris) THEN Response("BadRequest", read, "untouched")
    ELSE IF graph_uris # << >> /\ update = "using"
    THEN Response("BadRequest", read, "untouched")
    ELSE IF store_fails THEN Response("InternalServerError", read, "update")
    ELSE Response("NoContent", read, "update")

RECURSIVE configure_and_evaluate_sparql_update(_, _, _, _)
configure_and_evaluate_sparql_update(encoded, update, graph_uris, read) ==
    IF encoded = << >>
    THEN IF update # NoQuery THEN evaluate_sparql_update(update, graph_uris, read)
         ELSE Response("BadRequest", read, "untouched")
    ELSE CASE Head(encoded)[1] = "update" ->
                IF update # NoQuery THEN Response("BadRequest", read, "untouched")
                ELSE configure_and_evaluate_sparql_update(
                       Tail(encoded), Head(encoded)[2], graph_uris, read)
           [] Head(encoded)[1] \in { "using-graph-uri", "using-named-graph-uri" } ->
                configure_and_evaluate_sparql_update(
                  Tail(encoded), update, Append(graph_uris, Head(encoded)[2]), read)
           [] OTHER -> Response("BadRequest", read, "untouched")

\* store.load_graph / store.load_dataset on the body: every error is a bad request
load(body) ==
    IF read_to_string(body) = "valid" /\ ~store_fails
    THEN Response("NoContent", TRUE, "load")
    ELSE Response("BadRequest", TRUE, "load")

\* ("/", Method::Post)
handle_post_root(request) ==
    IF request.content_type = NoContentType
    THEN Response("BadRequest", FALSE, "untouched")
    ELSE IF GraphFormat_from_media_type(request.content_type) THEN load(request.body)
    ELSE IF DatasetFormat_from_media_type(request.content_type) THEN load(request.body)
    ELSE Response("UnsupportedMediaType", FALSE, "untouched")

MutQueryReadsAnyBody(request) ==
    configure_and_evaluate_sparql_query(
      request.url_query, read_to_string(request.body), << >>, TRUE)

\* ("/query", Method::Post)
handle_post_query(request) ==
    IF request.content_type = NoContentType
    THEN Response("BadRequest", FALSE, "untouched")
    ELSE IF request.content_type = "application/sparql-query"
    THEN configure_and_evaluate_sparql_query(
           request.url_query, read_to_string(request.body), << >>, TRUE)
    ELSE IF request.content_type = "application/x-www-form-urlencoded"
    THEN configure_and_evaluate_sparql_query(
           read_to_end(request.body), NoQuery, << >>, TRUE)
    ELSE Response("UnsupportedMediaType", FALSE, "untouched")

\* ("/update", Method::Post)
handle_post_update(request) ==
    IF request.content_type = NoContentType
    THEN Response("BadRequest", FALSE, "untouched")
    ELSE IF request.content_type = "application/sparql-update"
    THEN configure_and_evaluate_sparql_update(
           request.url_query, read_to_string(request.body), << >>, TRUE)
    ELSE IF request.content_type = "application/x-www-form-urlencoded"
    THEN configure_and_evaluate_sparql_update(
           read_to_end(request.body), NoQuery, << >>, TRUE)
    ELSE Response("UnsupportedMediaType", FALSE, "untouched")

handle_request(request) ==
    CASE request.path = "/" /\ request.method = "Get" ->
           Response("Ok", FALSE, "untouched")
      [] request.path = "/logo.svg" /\ request.method = "Get" ->
           Response("Ok", FALSE, "untouched")
      [] request.path = "/" /\ request.method = "Post" -> handle_post_root(request)
      [] request.path = "/query" /\ request.method = "Get" ->
           configure_and_evaluate_sparql_query(request.url_query, NoQuery, << >>, FALSE)
      [] request.path = "/query" /\ request.method = "Post" -> handle_post_query(request)
      [] request.path = "/update" /\ request.method = "Post" -> handle_post_update(request)
      [] OTHER -> Response("NotFound", FALSE, "untouched")

Paths == { "/", "/logo.svg", "/query", "/update", "/other" }

Methods == { "Get", "Post", "Put" }

ContentTypes ==
    { NoContentType, "text/turtle", "application/n-quads", "application/sparql-query",
      "application/sparql-update", "application/x-www-form-urlencoded", "text/foo" }

Parameters ==
    { << "query", "valid" >>, << "query", "invalid" >>,
      << "default-graph-uri", "valid" >>, << "named-graph-uri", "invalid" >>,
      << "using-graph-uri", "valid" >>, << "other", "valid" >> }

UrlQueries == UNION { [ 1 .. n -> Parameters ] : n \in 0 .. MaxParams }

Bodies ==
    { Text("valid"), Text("invalid"), Text("using") }
      \cup { Form(ps) : ps \in
               { << >>,
                 << << "query", "valid" >> >>,
                 << << "query", "valid" >>, << "query", "valid" >> >>,
                 << << "default-graph-uri", "valid" >>, << "query", "valid" >> >>,
                 << << "query", "valid" >>, << "other", "valid" >> >>,
                 << << "update", "valid" >> >>,
                 << << "update", "using" >>, << "using-graph-uri", "valid" >> >> } }

InitServer ==
    /\ \E path \in Paths, method \in Methods, content_type \in ContentTypes,
          query \in UrlQueries, body \in Bodies :
         plan = Request(path, method, content_type, query, body)
    /\ store_fails \in BOOLEAN
    /\ from = << >>
    /\ iter = NoIter
    /\ ev = InitEv
    /\ out = << >>
    /\ pc = "start"
    /\ template = << >>
    /\ buffered_results = << >>
    /\ bnodes = << >>
    /\ resolved = << >>
    /\ unstable = [ i \in 1 .. MaxSortRows |-> i ]

\* handle_request(request, store) has returned
HandleRequest ==
    /\ pc = "start"
    /\ out' = << handle_request(plan) >>
    /\ pc' = "responded"
    /\ UNCHANGED <<plan, from, store_fails, iter, ev, template, buffered_results,
                   bnodes, resolved, unstable>>

NextServer == HandleRequest

SpecServer == InitServer /\ [][NextServer]_vars

\* the (path, method) pairs handle_request routes
Routed ==
    { << "/", "Get" >>, << "/logo.svg", "Get" >>, << "/", "Post" >>,
      << "/query", "Get" >>, << "/query", "Post" >>, << "/update", "Post" >> }

\* the media types an endpoint that takes a POST supports
Supported(path) ==
    CASE path = "/" ->
           { "text/turtle", "application/n-triples", "application/rdf+xml",
             "application/n-quads", "application/trig" }
      [] path = "/query" ->
           { "application/sparql-query", "application/x-www-form-urlencoded" }
      [] path = "/update" ->
           { "application/sparql-update", "application/x-www-form-urlencoded" }
      [] OTHER -> { }

IsPost(paths) == plan.method = "Post" /\ plan.path \in paths

\* C22: a POST to /, /query or /update without Content-Type is answered 400
\* and one with a Content-Type the endpoint does not support 415, in both
\* cases with the body unread and the store untouched; a (path, method) pair
\* that is not routed is answered 404.
C22_ContentTypeIsCheckedFirst ==
    pc = "responded" =>
      /\ (IsPost({ "/", "/query", "/update" }) /\ plan.content_type = NoContentType)
           => out[1] = Response("BadRequest", FALSE, "untouched")
      /\ (/\ IsPost({ "/", "/query", "/update" })
          /\ plan.content_type # NoContentType
          /\ plan.content_type \notin Supported(plan.path))
           => out[1] = Response("UnsupportedMediaType", FALSE, "untouched")
      /\ << plan.path, plan.method >> \notin Routed => out[1].status = "NotFound"

\* a POST to /query whose body is a valid query was refused for its
\* Content-Type, one that another endpoint supports
C22_Witness ==
    /\ pc = "responded"
    /\ IsPost({ "/query" })
    /\ plan.content_type = "application/sparql-update"
    /\ plan.body = Text("valid")
    /\ plan.url_query = << >>
    /\ out[1].status = "UnsupportedMediaType"

\* the request reaches configure_and_evaluate_sparql_query
IsQueryRequest ==
    /\ plan.path = "/query"
    /\ \/ plan.method = "Get"
       \/ plan.method = "Post" /\ plan.content_type \in Supported("/query")

SentAsForm == plan.method = "Post" /\ plan.content_type = "application/x-www-form-urlencoded"

SentAsQuery == plan.method = "Post" /\ plan.content_type = "application/sparql-query"

\* the parameters the request supplies: those of its URL and those of its form
SuppliedParameters ==
    plan.url_query \o (IF SentAsForm THEN read_to_end(plan.body) ELSE << >>)

\* the query strings the request supplies: the 'query' parameters and the body
\* of a POST of a query
SuppliedQueries ==
    [ i \in 1 .. Len(SelectSeq(SuppliedParameters, LAMBDA kv : kv[1] = "query")) |->
        SelectSeq(SuppliedParameters, LAMBDA kv : kv[1] = "query")[i][2] ]
      \o (IF SentAsQuery THEN << read_to_string(plan.body) >> ELSE << >>)

\* the parameters configure_and_evaluate_sparql_query is given
ReadParameters == IF SentAsForm THEN read_to_end(plan.body) ELSE plan.url_query

ReadQueries ==
    [ i \in 1 .. Len(SelectSeq(ReadParameters, LAMBDA kv : kv[1] = "query")) |->
        SelectSeq(ReadParameters, LAMBDA kv : kv[1] = "query")[i][2] ]
      \o (IF SentAsQuery THEN << read_to_string(plan.body) >> ELSE << >>)

Recognised(parameters) ==
    \A i \in DOMAIN parameters :
        parameters[i][1] \in { "query", "default-graph-uri", "named-graph-uri" }

\* the answer to a request that supplies `queries` and `parameters`
AnswersQuery(queries, parameters) ==
    /\ Len(queries) = 0 => out[1].status = "BadRequest"
    /\ Len(queries) >= 2 => out[1].status = "BadRequest"
    /\ ~Recognised(parameters) => out[1].status = "BadRequest"
    /\ (Len(queries) = 1 /\ queries[1] # "valid") => out[1].status = "BadRequest"
    /\ out[1].store = "query"
         => Len(queries) = 1 /\ queries[1] = "valid" /\ Recognised(parameters)

\* C23: a request to /query is evaluated only when it supplies exactly one
\* query string and only recognised parameters: without a query, with a second
\* query (one in the URL next to one in the body included), with a parameter
\* other than query, default-graph-uri and named-graph-uri, or with a query
\* that does not parse, it is answered 400.
C23_OneQueryAndKnownParameters ==
    (pc = "responded" /\ IsQueryRequest)
      => AnswersQuery(SuppliedQueries, SuppliedParameters)

\* the same holds of the parameters the handler reads: those of the body for a
\* POST of a form, those of the URL otherwise
C23_OneQueryAndKnownParametersRead ==
    (pc = "responded" /\ IsQueryRequest)
      => AnswersQuery(ReadQueries, ReadParameters)

====
